---- MODULE Spec2Model ----
(***************************************************************************)
(* Model of rennvalo/houseHunter: the scoring rubric of app/models.py, and *)
(* the property cache / address matcher of app/property_cache.py and       *)
(* app/main.py.                                                            *)
(*                                                                         *)
(* Text is modelled as a sequence of one-character strings, so that the   *)
(* formatting of a number into a breakdown string, the regular            *)
(* expressions of the address normaliser and Python's substring test are  *)
(* computed character by character.                                        *)
(***************************************************************************)
EXTENDS Integers, Sequences, FiniteSets, TLC

VARIABLES features, score, edits,
          cache, written, now, tz, advances, writes, result, writers,
          houses, seq

scoreVars == <<features, score, edits>>

\* the houses table of db.py and its AUTOINCREMENT counter
storeVars == <<houses, seq>>

cacheVars == <<cache, written, now, tz, advances, writes, result, writers,
               houses, seq>>

\* what the cache operations and the handlers, which run one at a time,
\* leave alone: the scoring, the writers that run side by side and the
\* houses
restVars == <<features, score, edits, writers, houses, seq>>

vars == <<features, score, edits, cache, written, now, tz, advances, writes,
          result, writers, houses, seq>>

\* the result slot before any cache or lookup operation has run
Idle == [op |-> "none"]

(***************************************************************************)
(* Bounds of the scoring model.                                            *)
(***************************************************************************)
\* largest count (garage_cars, bathrooms, bedrooms) a request carries
MaxCount == 3
\* number of fields by which a request differs from its base profile
MaxEdits == 2

None == "None"

(***************************************************************************)
(* Text helpers.                                                           *)
(***************************************************************************)
DigitChars == <<"0", "1", "2", "3", "4", "5", "6", "7", "8", "9">>

DigitSet == {DigitChars[i] : i \in 1..10}

DigitVal(c) == CHOOSE d \in 0..9 : DigitChars[d + 1] = c

RECURSIVE NatStr(_)
\* str(n) for n >= 0
NatStr(n) == IF n < 10 THEN <<DigitChars[n + 1]>>
             ELSE NatStr(n \div 10) \o <<DigitChars[(n % 10) + 1]>>

\* str(n) of a Python int
IntStr(n) == IF n < 0 THEN <<"-">> \o NatStr(-n) ELSE NatStr(n)

\* f'+{n}'
FmtPlus(n) == <<"+">> \o IntStr(n)

\* sign = '+' if n >= 0 else '' ; f'{sign}{n}'   and   f'{n:+d}'
FmtSigned(n) == IF n >= 0 THEN <<"+">> \o IntStr(n) ELSE IntStr(n)

\* f'{head} ({label})': the number, a blank and the parenthesised text,
\* which is kept as one token
Entry(key, head, label) == [key |-> key, text |-> head \o <<" ", label>>]

(***************************************************************************)
(* models.py: HouseFeatures and calculate_score.                           *)
(* lot_acres is a float in the code; the model holds it in hundredths of  *)
(* an acre, so lot_acres / 0.25 is (4 * hundredths) / 100 and int() of a   *)
(* positive quotient is \div (the division by 0.25 is exact in binary).    *)
(***************************************************************************)
all_appliances ==
    {"dishwasher", "range", "oven", "fridge", "washer", "dryer", "microwave"}

\* keys a request's appliances dict may carry: the canonical slots and one
\* key outside them
ApplianceNames == all_appliances \cup {"wine_cooler"}

\* condition strings a request may carry ("broken" is neither modern nor old)
Conditions == {"modern", "old", "broken"}

\* class HouseFeatures: the field defaults
HouseFeatures ==
    [garage_cars |-> 0, bathrooms |-> 1, bathroom_quality |-> "normal",
     bedrooms |-> 1, square_feet |-> 0, lot_acres |-> 0,
     nice_backyard |-> FALSE, curb_appeal |-> FALSE, appliances |-> <<>>,
     basement |-> 0, privacy |-> "normal", noise_level |-> "normal",
     has_deck |-> FALSE, patio_potential |-> FALSE, has_pool |-> FALSE,
     near_recreation |-> FALSE, walking_shopping |-> FALSE,
     has_hoa |-> FALSE, hoa_monthly_fee |-> 0]

\* seed_data: the three example houses ("123 Oak Street", "456 Maple
\* Avenue", "789 Pine Road"); fields an example leaves out keep the default
SeedOak ==
    [HouseFeatures EXCEPT
       !.garage_cars = 2, !.bathrooms = 3, !.bedrooms = 4,
       !.square_feet = 2000, !.lot_acres = 50, !.nice_backyard = TRUE,
       !.curb_appeal = TRUE,
       !.appliances = [a \in {"dishwasher", "range", "oven", "fridge",
                              "washer", "dryer"} |-> "modern"],
       !.basement = 2, !.privacy = "very_private", !.has_deck = TRUE,
       !.has_pool = TRUE, !.near_recreation = TRUE]

SeedMaple ==
    [HouseFeatures EXCEPT
       !.garage_cars = 1, !.bathrooms = 2, !.bedrooms = 3,
       !.square_feet = 1200, !.lot_acres = 25, !.curb_appeal = TRUE,
       !.appliances = [a \in {"dishwasher", "range", "fridge"} |-> "old"],
       !.basement = 1, !.patio_potential = TRUE, !.walking_shopping = TRUE,
       !.has_hoa = TRUE, !.hoa_monthly_fee = 30]

SeedPine ==
    [HouseFeatures EXCEPT
       !.bathrooms = 2, !.bedrooms = 2, !.square_feet = 900,
       !.lot_acres = 10, !.nice_backyard = TRUE,
       !.appliances = [a \in {"microwave", "fridge"} |-> "modern"],
       !.privacy = "not_private", !.near_recreation = TRUE,
       !.has_hoa = TRUE, !.hoa_monthly_fee = 400]

BaseProfiles == {HouseFeatures, SeedOak, SeedMaple, SeedPine}

\* the values a request may give each scalar field; the enums carry one
\* value outside their declared set
ScalarFields ==
    {"garage_cars", "bathrooms", "bathroom_quality", "bedrooms",
     "square_feet", "lot_acres", "nice_backyard", "curb_appeal", "basement",
     "privacy", "noise_level", "has_deck", "patio_potential", "has_pool",
     "near_recreation", "walking_shopping", "has_hoa", "hoa_monthly_fee"}

FieldDomain(f) ==
    CASE f = "garage_cars" -> 0..MaxCount
      [] f = "bathrooms" -> 0..MaxCount
      [] f = "bedrooms" -> 0..MaxCount
      [] f = "bathroom_quality" -> {"normal", "modern", "needs_updates", "luxury"}
      [] f = "square_feet" -> {-100, 0, 499, 5200}
      [] f = "lot_acres" -> {-25, 0, 24, 110}
      [] f = "basement" -> 0..2
      [] f = "privacy" ->
           {"very_private", "private", "normal", "not_private", "secluded"}
      [] f = "noise_level" -> {"quiet", "normal", "loud", "deafening"}
      [] f = "hoa_monthly_fee" -> {-50, 0, 99, 250}
      [] OTHER -> BOOLEAN

\* one step of calculate_score: what it adds to total and the breakdown
\* entry it stores
Step(add, key, head, label) == [add |-> add, entry |-> Entry(key, head, label)]

\* lines 71-77
garage(f) ==
    IF f.garage_cars > 0
    THEN Step(f.garage_cars, "garage", FmtPlus(f.garage_cars), "(garage)")
    ELSE Step(0, "garage", <<"+", "0">>, "(No garage)")

\* lines 83-88: quality_scores.get(bathroom_quality, (1, "normal"))
quality_scores(q) ==
    CASE q = "modern" -> 2
      [] q = "normal" -> 1
      [] q = "needs_updates" -> -1
      [] OTHER -> 1

\* lines 79-93
bathrooms(f) ==
    LET bathroom_score == f.bathrooms * quality_scores(f.bathroom_quality)
    IN Step(bathroom_score, "bathrooms", FmtSigned(bathroom_score), "(bathrooms)")

\* lines 95-98
bedrooms(f) ==
    Step(f.bedrooms, "bedrooms", FmtPlus(f.bedrooms), "(bedrooms)")

\* square_feet with one point per 1000 sq ft
square_feet_per_1000(f) ==
    IF f.square_feet > 0
    THEN LET sqft_score == f.square_feet \div 1000
         IN Step(sqft_score, "square_feet", FmtPlus(sqft_score), "(sq ft)")
    ELSE Step(0, "square_feet", <<"+", "0">>, "(No square footage provided)")

\* lines 100-106
square_feet(f) ==
    IF f.square_feet > 0
    THEN LET sqft_score == f.square_feet \div 500
         IN Step(sqft_score, "square_feet", FmtPlus(sqft_score), "(sq ft)")
    ELSE Step(0, "square_feet", <<"+", "0">>, "(No square footage provided)")

\* lines 108-114
lot_size(f) ==
    IF f.lot_acres > 0
    THEN LET lot_score == (4 * f.lot_acres) \div 100
         IN Step(lot_score, "lot_size", FmtPlus(lot_score), "(acres)")
    ELSE Step(0, "lot_size", <<"+", "0">>, "(No lot size provided)")

\* lines 116-122
backyard(f) ==
    IF f.nice_backyard
    THEN Step(2, "backyard", <<"+", "2">>, "(Nice backyard)")
    ELSE Step(0, "backyard", <<"+", "0">>, "(No backyard or not nice)")

\* lines 124-130
curb_appeal(f) ==
    IF f.curb_appeal
    THEN Step(1, "curb_appeal", <<"+", "1">>, "(Has curb appeal)")
    ELSE Step(0, "curb_appeal", <<"+", "0">>, "(No curb appeal)")

RECURSIVE SumOver(_, _)
\* the sum of g[x] over the finite set S
SumOver(S, g) ==
    IF S = {} THEN 0
    ELSE LET x == CHOOSE y \in S : TRUE IN g[x] + SumOver(S \ {x}, g)

\* a rubric that treats a condition other than modern and old as a
\* missing appliance
present_or_missing(cond) ==
    IF cond = "modern" THEN 2 ELSE IF cond = "old" THEN 1 ELSE -2

\* lines 138-145: the loop over features.appliances.items()
present_bonus(cond) ==
    IF cond = "modern" THEN 2 ELSE IF cond = "old" THEN 1 ELSE 0

\* a rubric with no deduction for a canonical appliance that is not there
missing_none(f) == {}

\* lines 147-152: the canonical appliances that are no key of the dict
missing_appliances(f) == all_appliances \ DOMAIN f.appliances

\* lines 132-156
appliances(f) ==
    LET present == SumOver(DOMAIN f.appliances,
                           [a \in DOMAIN f.appliances |->
                              present_bonus(f.appliances[a])])
        appliance_score == present - 2 * Cardinality(missing_appliances(f))
    IN Step(appliance_score, "appliances", FmtSigned(appliance_score),
            "(present, missing)")

\* lines 158-168
basement(f) ==
    IF f.basement = 2
    THEN Step(2, "basement", <<"+", "2">>, "(Finished basement)")
    ELSE IF f.basement = 1
         THEN Step(1, "basement", <<"+", "1">>, "(Unfinished basement)")
         ELSE Step(0, "basement", <<"+", "0">>, "(No basement)")

\* a privacy table whose fallback for a value outside it is 0
privacy_scores_no_default(p) ==
    CASE p = "very_private" -> 3
      [] p = "private" -> 2
      [] p = "normal" -> 1
      [] p = "not_private" -> -1
      [] OTHER -> 0

\* lines 171-177: privacy_scores.get(privacy, (1, "Normal privacy"))
privacy_scores(p) ==
    CASE p = "very_private" -> 3
      [] p = "private" -> 2
      [] p = "normal" -> 1
      [] p = "not_private" -> -1
      [] OTHER -> 1

\* lines 170-179
privacy(f) ==
    LET privacy_score == privacy_scores(f.privacy)
    IN Step(privacy_score, "privacy", FmtSigned(privacy_score), "(privacy)")

\* lines 182-187: noise_scores.get(noise_level, (0, "Normal noise"))
noise_scores(n) ==
    CASE n = "quiet" -> 1
      [] n = "normal" -> 0
      [] n = "loud" -> -1
      [] OTHER -> 0

\* lines 181-189
noise_level(f) ==
    LET noise_score == noise_scores(f.noise_level)
    IN Step(noise_score, "noise_level", FmtSigned(noise_score), "(noise)")

\* lines 191-197
deck(f) ==
    IF f.has_deck
    THEN Step(1, "deck", <<"+", "1">>, "(Has deck)")
    ELSE Step(0, "deck", <<"+", "0">>, "(No deck)")

\* lines 199-205
patio_potential(f) ==
    IF f.patio_potential
    THEN Step(2, "patio_potential", <<"+", "2">>, "(Patio potential)")
    ELSE Step(0, "patio_potential", <<"+", "0">>, "(No patio potential)")

\* lines 207-213
pool(f) ==
    IF f.has_pool
    THEN Step(3, "pool", <<"+", "3">>, "(Has pool)")
    ELSE Step(0, "pool", <<"+", "0">>, "(No pool)")

\* lines 215-221
near_recreation(f) ==
    IF f.near_recreation
    THEN Step(2, "near_recreation", <<"+", "2">>, "(Near recreation areas)")
    ELSE Step(0, "near_recreation", <<"+", "0">>, "(Not near recreation)")

\* lines 223-229
walking_shopping(f) ==
    IF f.walking_shopping
    THEN Step(2, "walking_shopping", <<"+", "2">>,
              "(Walking distance to shopping)")
    ELSE Step(0, "walking_shopping", <<"+", "0">>,
              "(Not walking distance to shopping)")

\* hoa with the string written like the other categories, f'+{hoa_score}'
hoa_plus_prefix(f) ==
    IF f.has_hoa
    THEN LET fee_penalty == -(f.hoa_monthly_fee \div 100)
             hoa_score == -1 + fee_penalty
         IN Step(hoa_score, "hoa", FmtPlus(hoa_score), "(HOA)")
    ELSE Step(0, "hoa", <<"+", "0">>, "(No HOA)")

\* hoa with the base penalty only, whatever the monthly fee
hoa_flat(f) ==
    IF f.has_hoa
    THEN Step(-1, "hoa", IntStr(-1), "(HOA)")
    ELSE Step(0, "hoa", <<"+", "0">>, "(No HOA)")

\* lines 231-240: f'{hoa_score} (HOA: ...)' carries no forced sign
hoa(f) ==
    IF f.has_hoa
    THEN LET fee_penalty == -(f.hoa_monthly_fee \div 100)
             hoa_score == -1 + fee_penalty
         IN Step(hoa_score, "hoa", IntStr(hoa_score), "(HOA)")
    ELSE Step(0, "hoa", <<"+", "0">>, "(No HOA)")

\* a breakdown that has an entry for the HOA only when there is one
score_steps_hoa_if_any(f) ==
    <<garage(f), bathrooms(f), bedrooms(f), square_feet(f), lot_size(f),
      backyard(f), curb_appeal(f), appliances(f), basement(f), privacy(f),
      noise_level(f), deck(f), patio_potential(f), pool(f),
      near_recreation(f), walking_shopping(f)>>
    \o (IF f.has_hoa THEN <<hoa(f)>> ELSE <<>>)

\* the steps of calculate_score in the order the code runs them
score_steps(f) ==
    <<garage(f), bathrooms(f), bedrooms(f), square_feet(f), lot_size(f),
      backyard(f), curb_appeal(f), appliances(f), basement(f), privacy(f),
      noise_level(f), deck(f), patio_potential(f), pool(f),
      near_recreation(f), walking_shopping(f), hoa(f)>>

RECURSIVE total_after(_, _)
\* total after the first n steps: total = 0, then total += ... per step
total_after(steps, n) ==
    IF n = 0 THEN 0 ELSE total_after(steps, n - 1) + steps[n].add

\* calculate_score: (total, breakdown); the breakdown dict keeps its
\* insertion order
calculate_score(f) ==
    LET steps == score_steps(f)
    IN [total |-> total_after(steps, Len(steps)),
        breakdown |-> [i \in 1..Len(steps) |-> steps[i].entry]]

(***************************************************************************)
(* The scoring requests: add_house scores the features of a new house,    *)
(* update_house scores the features of the changed house (main.py).        *)
(***************************************************************************)
NoScore == [total |-> 0, breakdown |-> <<>>]

Scored == score # NoScore

ScoreInit ==
    /\ features \in BaseProfiles
    /\ score = NoScore
    /\ edits = 0
    /\ cache = {}
    /\ written = <<>>
    /\ now = 0
    /\ tz = 0
    /\ advances = 0
    /\ writes = 0
    /\ result = Idle
    /\ writers = <<>>
    /\ houses = {}
    /\ seq = 0

\* main.py add_house: score, breakdown = calculate_score(house.features)
add_house ==
    /\ ~Scored
    /\ score' = calculate_score(features)
    /\ UNCHANGED <<features, edits>>
    /\ UNCHANGED cacheVars

\* main.py update_house: the request carries the house with one field
\* changed (a scalar field, or one key of the appliances dict set or
\* dropped); score, breakdown = calculate_score(house.features)
update_house ==
    /\ Scored
    /\ edits < MaxEdits
    /\ \/ \E fld \in ScalarFields : \E v \in FieldDomain(fld) :
            /\ features[fld] # v
            /\ features' = [features EXCEPT ![fld] = v]
       \/ \E a \in ApplianceNames : \E c \in Conditions :
            /\ (a \in DOMAIN features.appliances => features.appliances[a] # c)
            /\ features' = [features EXCEPT !.appliances =
                   [k \in (DOMAIN features.appliances) \cup {a} |->
                       IF k = a THEN c ELSE features.appliances[k]]]
       \/ \E a \in DOMAIN features.appliances :
            features' = [features EXCEPT !.appliances =
                   [k \in (DOMAIN features.appliances) \ {a} |->
                       features.appliances[k]]]
    /\ score' = calculate_score(features')
    /\ edits' = edits + 1
    /\ UNCHANGED cacheVars

ScoreNext == add_house \/ update_house

SpecScore == ScoreInit /\ [][ScoreNext]_vars

(***************************************************************************)
(* C1, C2: the total against the rubric table and against the breakdown.   *)
(***************************************************************************)
\* the rubric table of the specification, one category at a time
RubricGarage(f) == f.garage_cars

RubricBathrooms(f) ==
    f.bathrooms * (IF f.bathroom_quality = "modern" THEN 2
                   ELSE IF f.bathroom_quality = "needs_updates" THEN -1
                   ELSE 1)

RubricBedrooms(f) == f.bedrooms

RubricSquareFeet(f) == IF f.square_feet <= 0 THEN 0 ELSE f.square_feet \div 500

RubricLot(f) == IF f.lot_acres <= 0 THEN 0 ELSE f.lot_acres \div 25

RubricSlot(f, a) ==
    IF a \notin DOMAIN f.appliances THEN (IF a \in all_appliances THEN -2 ELSE 0)
    ELSE IF f.appliances[a] = "modern" THEN 2
    ELSE IF f.appliances[a] = "old" THEN 1
    ELSE 0

RubricAppliances(f) ==
    SumOver(ApplianceNames, [a \in ApplianceNames |-> RubricSlot(f, a)])

RubricPrivacy(f) ==
    CASE f.privacy = "very_private" -> 3
      [] f.privacy = "private" -> 2
      [] f.privacy = "not_private" -> -1
      [] OTHER -> 1

RubricNoise(f) ==
    CASE f.noise_level = "quiet" -> 1
      [] f.noise_level = "loud" -> -1
      [] OTHER -> 0

RubricHoa(f) == IF f.has_hoa THEN -1 - (f.hoa_monthly_fee \div 100) ELSE 0

Flag(b, points) == IF b THEN points ELSE 0

RubricSum(f) ==
    RubricGarage(f) + RubricBathrooms(f) + RubricBedrooms(f)
    + RubricSquareFeet(f) + RubricLot(f) + Flag(f.nice_backyard, 2)
    + Flag(f.curb_appeal, 1) + RubricAppliances(f) + f.basement
    + RubricPrivacy(f) + RubricNoise(f) + Flag(f.has_deck, 1)
    + Flag(f.patio_potential, 2) + Flag(f.has_pool, 3)
    + Flag(f.near_recreation, 2) + Flag(f.walking_shopping, 2) + RubricHoa(f)

\* C1: for every scored FeatureSet the total returned by calculate_score is
\* the sum of the 17 category values of the rubric table.
C1_TotalIsRubricSum == Scored => score.total = RubricSum(features)

\* C1 witness: a scored request with a negative bathroom score, a lot and a
\* square footage between two steps, an HOA fee and a non-canonical appliance
C1_Witness ==
    /\ Scored
    /\ features.has_hoa /\ features.hoa_monthly_fee >= 100
    /\ features.lot_acres > 25
    /\ features.square_feet > 500
    /\ features.appliances # <<>>
    /\ edits = MaxEdits

RECURSIVE DigitRun(_, _)
\* the digits of text from position i on, up to the first non-digit
DigitRun(text, i) ==
    IF i > Len(text) \/ text[i] \notin DigitSet THEN <<>>
    ELSE <<text[i]>> \o DigitRun(text, i + 1)

RECURSIVE DigitsValue(_)
DigitsValue(ds) ==
    IF ds = <<>> THEN 0
    ELSE 10 * DigitsValue(SubSeq(ds, 1, Len(ds) - 1)) + DigitVal(ds[Len(ds)])

\* reading back the signed number that leads a breakdown string: one
\* optional sign, then at least one digit
LeadingNumber(text) ==
    LET signed == Len(text) > 0 /\ text[1] \in {"+", "-"}
        ds == DigitRun(text, IF signed THEN 2 ELSE 1)
    IN [ok |-> ds # <<>>,
        value |-> IF signed /\ text[1] = "-" THEN -DigitsValue(ds)
                  ELSE DigitsValue(ds)]

RECURSIVE BreakdownSum(_, _)
BreakdownSum(b, n) ==
    IF n = 0 THEN 0
    ELSE BreakdownSum(b, n - 1) + LeadingNumber(b[n].text).value

\* C2: every breakdown string starts with a readable signed number, and
\* the total is the sum of those numbers.
C2_TotalIsBreakdownSum ==
    Scored =>
       /\ \A i \in 1..Len(score.breakdown) : LeadingNumber(score.breakdown[i].text).ok
       /\ score.total = BreakdownSum(score.breakdown, Len(score.breakdown))

\* C2 witness: a scored request whose breakdown holds negative and
\* multi-digit contributions
C2_Witness ==
    /\ Scored
    /\ \E i \in 1..Len(score.breakdown) :
          LeadingNumber(score.breakdown[i].text).value <= -10
    /\ \E i \in 1..Len(score.breakdown) :
          LeadingNumber(score.breakdown[i].text).value >= 10

(***************************************************************************)
(* Text of addresses: Python's str methods and the regular expressions of *)
(* property_cache.py and main.py, computed on sequences of characters.    *)
(* The only whitespace character of the model's alphabet is the blank.     *)
(***************************************************************************)
UpperChars ==
    <<"A", "B", "C", "D", "E", "F", "G", "H", "I", "J", "K", "L", "M", "N",
     "O", "P", "Q", "R", "S", "T", "U", "V", "W", "X", "Y", "Z">>

LowerChars ==
    <<"a", "b", "c", "d", "e", "f", "g", "h", "i", "j", "k", "l", "m", "n",
     "o", "p", "q", "r", "s", "t", "u", "v", "w", "x", "y", "z">>

LowerChar(c) ==
    IF \E i \in 1..26 : UpperChars[i] = c
    THEN LowerChars[CHOOSE i \in 1..26 : UpperChars[i] = c]
    ELSE c

\* str.lower()
lower(s) == [i \in 1..Len(s) |-> LowerChar(s[i])]

IsSpace(c) == c = " "

\* the class \w (and \d inside it)
IsWord(c) ==
    \/ c \in DigitSet
    \/ c = "_"
    \/ \E i \in 1..26 : UpperChars[i] = c \/ LowerChars[i] = c

RECURSIVE lstrip(_)
lstrip(s) == IF s # <<>> /\ IsSpace(Head(s)) THEN lstrip(Tail(s)) ELSE s

RECURSIVE rstrip(_)
rstrip(s) ==
    IF s # <<>> /\ IsSpace(s[Len(s)]) THEN rstrip(SubSeq(s, 1, Len(s) - 1))
    ELSE s

\* str.strip()
strip(s) == rstrip(lstrip(s))

\* Python's  a in b  on strings: a is a contiguous part of b (the empty
\* string is part of every string)
Contains(a, b) ==
    \E i \in 0..(Len(b) - Len(a)) : SubSeq(b, i + 1, i + Len(a)) = a

RECURSIVE SkipSpaces(_, _)
\* \s* from position i: the first position at or after i that holds no blank
SkipSpaces(s, i) ==
    IF i <= Len(s) /\ IsSpace(s[i]) THEN SkipSpaces(s, i + 1) ELSE i

\* \d{n} at position i
AllDigits(s, i, n) ==
    /\ i + n - 1 <= Len(s)
    /\ \A k \in i..(i + n - 1) : s[k] \in DigitSet

\* the least position of lo..hi that satisfies Ok, or 0
FirstPos(lo, hi, Ok(_)) ==
    IF \E i \in lo..hi : Ok(i)
    THEN CHOOSE i \in lo..hi : Ok(i) /\ \A j \in lo..(i - 1) : ~Ok(j)
    ELSE 0

\* r'\s*\d{5}(?:-\d{4})?\s*$' matching from position i to the end
ZipTailAt(s, i) ==
    LET p == SkipSpaces(s, i)
        q == p + 5
    IN /\ AllDigits(s, p, 5)
       /\ \/ SkipSpaces(s, q) = Len(s) + 1
          \/ /\ q <= Len(s) /\ s[q] = "-"
             /\ AllDigits(s, q + 1, 4)
             /\ SkipSpaces(s, q + 5) = Len(s) + 1

\* addr_without_zip = re.sub(r'\s*\d{5}(?:-\d{4})?\s*$', '', address).strip()
addr_without_zip(address) ==
    LET at == FirstPos(1, Len(address), LAMBDA i : ZipTailAt(address, i))
    IN strip(IF at = 0 THEN address ELSE SubSeq(address, 1, at - 1))

\* the 50 state codes of the state_match pattern, lower-cased (the pattern
\* is matched with re.IGNORECASE)
StateCodes ==
    {<<"a", "l">>, <<"a", "k">>, <<"a", "z">>, <<"a", "r">>, <<"c", "a">>,
     <<"c", "o">>, <<"c", "t">>, <<"d", "e">>, <<"f", "l">>, <<"g", "a">>,
     <<"h", "i">>, <<"i", "d">>, <<"i", "l">>, <<"i", "n">>, <<"i", "a">>,
     <<"k", "s">>, <<"k", "y">>, <<"l", "a">>, <<"m", "e">>, <<"m", "d">>,
     <<"m", "a">>, <<"m", "i">>, <<"m", "n">>, <<"m", "s">>, <<"m", "o">>,
     <<"m", "t">>, <<"n", "e">>, <<"n", "v">>, <<"n", "h">>, <<"n", "j">>,
     <<"n", "m">>, <<"n", "y">>, <<"n", "c">>, <<"n", "d">>, <<"o", "h">>,
     <<"o", "k">>, <<"o", "r">>, <<"p", "a">>, <<"r", "i">>, <<"s", "c">>,
     <<"s", "d">>, <<"t", "n">>, <<"t", "x">>, <<"u", "t">>, <<"v", "t">>,
     <<"v", "a">>, <<"w", "a">>, <<"w", "v">>, <<"w", "i">>, <<"w", "y">>}

RECURSIVE SkipSeparators(_, _)
\* [,\s]+ from position i: the first position that holds neither
SkipSeparators(s, i) ==
    IF i <= Len(s) /\ (IsSpace(s[i]) \/ s[i] = ",")
    THEN SkipSeparators(s, i + 1) ELSE i

\* r'[,\s]+(AL|...|WY)\s*$' matching from position i to the end
StateAt(s, i) ==
    LET p == SkipSeparators(s, i)
    IN /\ p > i
       /\ p + 1 <= Len(s)
       /\ lower(SubSeq(s, p, p + 1)) \in StateCodes
       /\ SkipSpaces(s, p + 2) = Len(s) + 1

\* state_match.start(), counted from 1; 0 when the search finds nothing
state_match(s) == FirstPos(1, Len(s), LAMBDA i : StateAt(s, i))

\* s.split(',')[0]
BeforeComma(s) ==
    LET at == FirstPos(1, Len(s), LAMBDA i : s[i] = ",")
    IN IF at = 0 THEN s ELSE SubSeq(s, 1, at - 1)

RECURSIVE WordEnd(_, _)
\* the first position at or after i that holds a blank (or Len + 1)
WordEnd(s, i) ==
    IF i <= Len(s) /\ ~IsSpace(s[i]) THEN WordEnd(s, i + 1) ELSE i

RECURSIVE split(_)
\* str.split(): the words between runs of whitespace
split(s) ==
    LET p == SkipSpaces(s, 1)
    IN IF p > Len(s) THEN <<>>
       ELSE LET e == WordEnd(s, p)
            IN <<SubSeq(s, p, e - 1)>> \o split(SubSeq(s, e, Len(s)))

RECURSIVE join(_)
\* ' '.join(words)
join(words) ==
    IF words = <<>> THEN <<>>
    ELSE IF Len(words) = 1 THEN words[1]
    ELSE words[1] \o <<" ">> \o join(Tail(words))

\* the heuristic with the last word dropped only from more than 4 words
street_part_over_four(s) ==
    IF \E i \in 1..Len(s) : s[i] = ","
    THEN strip(BeforeComma(s))
    ELSE LET words == split(s)
         IN IF Len(words) > 4
            THEN join(SubSeq(words, 1, Len(words) - 1))
            ELSE s

\* the comma-or-word-count heuristic both branches of the normaliser apply
street_part(s) ==
    IF \E i \in 1..Len(s) : s[i] = ","
    THEN strip(BeforeComma(s))
    ELSE LET words == split(s)
         IN IF Len(words) > 3
            THEN join(SubSeq(words, 1, Len(words) - 1))
            ELSE s

\* street_address_raw
street_address_raw(address) ==
    LET awz == addr_without_zip(address)
        at == state_match(awz)
    IN IF at # 0
       THEN street_part(strip(SubSeq(awz, 1, at - 1)))
       ELSE street_part(awz)

\* the alternatives (unit|apt|apartment|suite|ste|d) in the order the
\* pattern tries them
UnitWordsWithD ==
    <<<<"u", "n", "i", "t">>,
      <<"a", "p", "t">>,
      <<"a", "p", "a", "r", "t", "m", "e", "n", "t">>,
      <<"s", "u", "i", "t", "e">>,
      <<"s", "t", "e">>,
      <<"d">>>>

\* the alternatives (unit|apt|apartment|suite|ste) of main.py line 938
UnitWords == SubSeq(UnitWordsWithD, 1, 5)

\* the class [\d\w-]
IsUnitChar(c) == IsWord(c) \/ c = "-"

RECURSIVE UnitRunEnd(_, _)
\* [\d\w-]+ from position i: the first position after the run
UnitRunEnd(s, i) ==
    IF i <= Len(s) /\ IsUnitChar(s[i]) THEN UnitRunEnd(s, i + 1) ELSE i

\* r'\s*[#,]?\s*(words)\s*[\d\w-]+' with re.IGNORECASE matching at
\* position i: the position after the match, or 0. Whatever the blanks
\* the two \s* share, the word has to start at the first character that is
\* no blank, after at most one '#' or ','.
UnitMatchEnd(s, i, words) ==
    LET p1 == SkipSpaces(s, i)
        p2 == IF p1 <= Len(s) /\ s[p1] \in {"#", ","}
              THEN SkipSpaces(s, p1 + 1) ELSE p1
        Fits(k) ==
            /\ p2 + Len(words[k]) - 1 <= Len(s)
            /\ lower(SubSeq(s, p2, p2 + Len(words[k]) - 1)) = words[k]
            /\ LET p3 == SkipSpaces(s, p2 + Len(words[k]))
               IN p3 <= Len(s) /\ IsUnitChar(s[p3])
        k == FirstPos(1, Len(words), Fits)
    IN IF k = 0 THEN 0
       ELSE UnitRunEnd(s, SkipSpaces(s, p2 + Len(words[k])))

RECURSIVE SubUnits(_, _, _)
\* re.sub(pattern, '', s): every match from the left is dropped
SubUnits(s, i, words) ==
    IF i > Len(s) THEN <<>>
    ELSE LET e == UnitMatchEnd(s, i, words)
         IN IF e # 0 THEN SubUnits(s, e, words)
            ELSE <<s[i]>> \o SubUnits(s, i + 1, words)

\* the normaliser: property_cache.py lines 243-266, main.py lines 835-867
\* (the same statements in both places)
normalize(address) ==
    lower(strip(SubUnits(street_address_raw(address), 1, UnitWordsWithD)))

\* re.match(r'^(\d+)', s): the leading digits ("" when there are none)
street_number(s) == DigitRun(s, 1)

\* r'\b(\d{5})(?:-\d{4})?\b' matching at position i
ZipAt(s, i) ==
    /\ AllDigits(s, i, 5)
    /\ (i = 1 \/ ~IsWord(s[i - 1]))
    /\ \/ /\ i + 5 <= Len(s) /\ s[i + 5] = "-"
          /\ AllDigits(s, i + 6, 4)
          /\ (i + 10 > Len(s) \/ ~IsWord(s[i + 10]))
       \/ i + 5 > Len(s)
       \/ ~IsWord(s[i + 5])

\* main.py lines 806-814: zip_match.group(1), or "" when the address
\* holds no ZIP code
zip_of(address) ==
    LET at == FirstPos(1, Len(address), LAMBDA i : ZipAt(address, i))
    IN IF at = 0 THEN <<>> ELSE SubSeq(address, at, at + 4)

(***************************************************************************)
(* Time. The clock counts ticks of UTC time, TicksPerDay to a day. SQLite's*)
(* CURRENT_TIMESTAMP writes the UTC time as 'YYYY-MM-DD HH:MM:SS';         *)
(* datetime.now().isoformat() writes the host's local time as              *)
(* 'YYYY-MM-DDTHH:MM:SS.ffffff'. The queries compare the two as text, so a *)
(* timestamp is held as the three parts the comparison goes through: the   *)
(* date, the separator character and the time of day.                      *)
(***************************************************************************)
\* ticks in a day (the resolution of the clock)
TicksPerDay == 6
\* how often the clock is advanced in a behaviour
MaxAdvances == 1
\* how many cache_properties calls (module level) a behaviour holds
MaxWrites == 2

\* the host's offset from UTC in ticks: UTC itself and a zone west of it
TZOffsets == {-2, 0}

\* timedelta(days=360) of lookup_cached_property and the default
\* max_age_days of search_cached_properties
FRESH_DAYS == 360

\* the steps by which the clock advances: a tick, and the ages on both sides
\* of the 360-day window (359 days, 359 days and a tick, 360 days and a
\* tick, 361 days)
Deltas ==
    {1,
     (FRESH_DAYS - 1) * TicksPerDay, (FRESH_DAYS - 1) * TicksPerDay + 1,
     FRESH_DAYS * TicksPerDay + 1, (FRESH_DAYS + 1) * TicksPerDay}

\* the text of an instant t (in ticks) written with separator sep
Stamp(t, sep) == <<t \div TicksPerDay, sep, t % TicksPerDay>>

\* CURRENT_TIMESTAMP at UTC instant t
CURRENT_TIMESTAMP(t) == Stamp(t, " ")

\* (datetime.now() - timedelta(days=days)).isoformat() at UTC instant t on
\* a host whose local time is UTC + offset
cutoff_date(t, offset, days) == Stamp(t + offset - days * TicksPerDay, "T")

\* the code points of the two separators
SepCode(c) == IF c = " " THEN 32 ELSE 84

\* a < b for two timestamps compared as text (SQLite's BINARY collation):
\* the dates have the same width, so they compare as numbers; then the
\* separators compare by code point; then the times of day
TextLess(a, b) ==
    \/ a[1] < b[1]
    \/ /\ a[1] = b[1]
       /\ \/ SepCode(a[2]) < SepCode(b[2])
          \/ a[2] = b[2] /\ a[3] < b[3]

(***************************************************************************)
(* The records of the external listings search and the rows of the cache. *)
(* A key a record does not carry, and a value Python takes for false (0,  *)
(* "", None), is 0 or "" here; a nullable column is <<>> (NULL) or <<v>>.  *)
(***************************************************************************)
Null == <<>>

Some(v) == <<v>>

\* a or b or c ...: the first operand that is not false (0), else the last
Or2(a, b) == IF a # 0 THEN a ELSE b

Or3(a, b, c) == Or2(a, Or2(b, c))

Or4(a, b, c, d) == Or2(a, Or3(b, c, d))

\* the same chain over strings
OrS2(a, b) == IF a # "" THEN a ELSE b

OrS3(a, b, c) == OrS2(a, OrS2(b, c))

ZIP_SPRINGFIELD == <<"6", "2", "7", "0", "4">>

ZIP_BOULDER == <<"8", "0", "3", "0", "3">>

Zips == {ZIP_SPRINGFIELD, ZIP_BOULDER}

\* a record that carries nothing
EmptyProp ==
    [kind |-> "none", line |-> <<>>,
     city |-> <<>>, state_code |-> <<>>, postal_code |-> <<>>,
     desc_beds |-> 0, beds |-> 0, desc_beds_min |-> 0,
     desc_baths_full |-> 0, baths_full |-> 0, desc_baths |-> 0,
     desc_baths_half |-> 0, baths_half |-> 0,
     desc_sqft |-> 0, sqft |-> 0, desc_lot_sqft |-> 0, lot_sqft |-> 0,
     desc_garage |-> 0, garage |-> 0, desc_garage_spaces |-> 0,
     garage_spaces |-> 0, desc_year_built |-> 0, year_built |-> 0,
     desc_type |-> "", prop_type |-> "", type |-> "",
     list_price |-> 0, price |-> 0, desc_sold_price |-> 0,
     primary_photo |-> "", photos |-> "", thumbnail |-> ""]

\* kind says where the record keeps its address line: "location"
\* (prop["location"]["address"]["line"]), "address_dict"
\* (prop["address"]["line"]), "address_str" (prop["address"] is the line)
\* or "none"; city, state_code and postal_code are the other keys of
\* prop["location"]["address"]
PropMain ==
    [EmptyProp EXCEPT !.kind = "location", !.line = <<"1", "2", "3", " ", "M", "a", "i", "n", " ", "S", "t">>,
       !.city = <<"S", "p", "r", "i", "n", "g", "f", "i", "e", "l", "d">>, !.state_code = <<"I", "L">>, !.postal_code = ZIP_SPRINGFIELD,
       !.desc_beds = 3, !.desc_baths_full = 2, !.desc_baths_half = 1,
       !.desc_sqft = 1800, !.desc_lot_sqft = 10890, !.desc_garage = 2,
       !.desc_year_built = 1990, !.desc_type = "single_family",
       !.list_price = 250000, !.primary_photo = "main.jpg"]

\* the same house in another search: the line in capitals with a trailing
\* blank, another price and other details
PropMainRelisted ==
    [EmptyProp EXCEPT !.kind = "location", !.line = <<"1", "2", "3", " ", "M", "A", "I", "N", " ", "S", "T", " ">>,
       !.beds = 4, !.baths_full = 3, !.sqft = 2000, !.lot_sqft = 8712,
       !.garage_spaces = 1, !.year_built = 1991, !.prop_type = "condo",
       !.price = 260000, !.thumbnail = "relisted.jpg"]

PropElm ==
    [EmptyProp EXCEPT !.kind = "address_str", !.line = <<"5", " ", "E", "l", "m", " ", "S", "t", " ", "A", "p", "t", " ", "2">>,
       !.desc_beds_min = 2, !.desc_baths = 1, !.desc_lot_sqft = 4356,
       !.type = "apartment", !.list_price = 400000, !.photos = "elm.jpg"]

\* a sold house: the only price it carries is description.sold_price
PropOak ==
    [EmptyProp EXCEPT !.kind = "address_dict", !.line = <<"7", "7", " ", "O", "a", "k", " ", "D", "r">>,
       !.desc_beds = 2, !.baths_full = 1, !.desc_sold_price = 100000]

\* a record without any address
PropNoAddress ==
    [EmptyProp EXCEPT !.desc_beds = 1, !.list_price = 90000]

\* records without any price
PropPine ==
    [EmptyProp EXCEPT !.kind = "location", !.line = <<"9", " ", "P", "i", "n", "e", " ", "R", "d">>, !.desc_beds = 5]

PropBirch ==
    [EmptyProp EXCEPT !.kind = "location", !.line = <<"3", " ", "B", "i", "r", "c", "h", " ", "W", "a", "y">>, !.beds = 1]

PropCedar ==
    [EmptyProp EXCEPT !.kind = "location", !.line = <<"8", " ", "C", "e", "d", "a", "r", " ", "C", "t">>, !.beds = 2]

\* records the caching pass cannot store. fault names the key that is
\* wrong: "description": null makes description.get raise during the
\* extraction, "beds": [2] is a value SQLite cannot bind, so that the write
\* raises
PropBroken == ("fault" :> "description") @@ PropMain

PropUnbindable == ("fault" :> "beds") @@ PropElm

\* the record raises inside the try of the caching loop
raises(prop) == "fault" \in DOMAIN prop

\* lists with such records: first, between well-formed records and last,
\* and a list of nothing else
MalformedLists ==
    {<<PropBroken, PropMain, PropUnbindable, PropOak, PropBroken>>,
     <<PropUnbindable, PropBroken>>}

\* the result lists the external search may answer for a ZIP code
Responses(zip_code) ==
    IF zip_code = ZIP_SPRINGFIELD
    THEN {<<PropMain, PropElm, PropPine, PropBirch, PropCedar, PropOak>>,
          <<PropMainRelisted, PropNoAddress, PropMain, PropMainRelisted>>}
    ELSE {<<PropElm, PropOak>>}

\* every result list, every record and every address line of the responses
AllResponses == UNION {Responses(zip_code) : zip_code \in Zips}

AllProps == UNION {{r[i] : i \in DOMAIN r} : r \in AllResponses}

StoredLines == {IF prop.kind = "none" THEN <<>> ELSE prop.line : prop \in AllProps}

\* prop_address.lower().strip() for each address line
cached_address == [line \in StoredLines |-> strip(lower(line))]

CachedAddresses == {cached_address[line] : line \in StoredLines}

\* the addresses the callers ask for
ADDR_MAIN == <<"1", "2", "3", " ", "M", "a", "i", "n", " ", "S", "t", ",", " ", "S", "p", "r", "i", "n", "g", "f", "i", "e", "l", "d", ",", " ", "I", "L", " ", "6", "2", "7", "0", "4">>

ADDR_ZIP_ONLY == <<"6", "2", "7", "0", "4">>

ADDR_ELM_NORTH == <<"5", " ", "E", "l", "m", " ", "S", "t", " ", "N", "o", "r", "t", "h", ",", " ", "S", "p", "r", "i", "n", "g", "f", "i", "e", "l", "d", ",", " ", "I", "L", " ", "6", "2", "7", "0", "4">>

ADDR_OAK_LANE == <<"7", "7", " ", "O", "a", "k", " ", "L", "n", ",", " ", "S", "p", "r", "i", "n", "g", "f", "i", "e", "l", "d", ",", " ", "I", "L", " ", "6", "2", "7", "0", "4">>

ADDR_NOWHERE == <<"1", " ", "N", "o", "w", "h", "e", "r", "e", " ", "C", "t", ",", " ", "B", "o", "u", "l", "d", "e", "r", ",", " ", "C", "O", " ", "8", "0", "3", "0", "3">>

\* an address without a ZIP code
ADDR_NO_ZIP == <<"1", "2", "3", " ", "M", "a", "i", "n", " ", "S", "t", ",", " ", "S", "p", "r", "i", "n", "g", "f", "i", "e", "l", "d">>

QueryAddresses ==
    {ADDR_MAIN, ADDR_ZIP_ONLY, ADDR_ELM_NORTH, ADDR_OAK_LANE, ADDR_NOWHERE,
     ADDR_NO_ZIP}

\* search_address of lookup_cached_property for each of them
search_key == [a \in QueryAddresses |-> normalize(a)]

SearchKeys == {search_key[a] : a \in QueryAddresses}

(***************************************************************************)
(* property_cache.py: the cached_properties table is the set cache of its  *)
(* rows. bathrooms is held in halves and lot_acres in hundredths of an     *)
(* acre, so that both stay integers.                                       *)
(***************************************************************************)
\* square feet in an acre (lot_acres = round(lot_sqft / 43560, 2))
SQFT_PER_ACRE == 43560

\* the address line cache_properties extracts from a record: "" when the
\* record has neither location.address nor address
address_line(prop) == IF prop.kind = "none" THEN <<>> ELSE prop.line

\* price = list_price, else price, else description.sold_price, else None
price_of(prop) ==
    IF prop.list_price # 0 THEN Some(prop.list_price)
    ELSE IF prop.price # 0 THEN Some(prop.price)
    ELSE IF prop.desc_sold_price # 0 THEN Some(prop.desc_sold_price)
    ELSE Null

\* photo_url = primary_photo, else the first of photos, else thumbnail
photo_url_of(prop) ==
    IF prop.primary_photo # "" THEN prop.primary_photo
    ELSE IF prop.photos # "" THEN prop.photos
    ELSE IF prop.thumbnail # "" THEN prop.thumbnail
    ELSE None

\* round(lot_sqft / 43560, 2) in hundredths
lot_acres_of(lot_sqft) ==
    IF lot_sqft # 0
    THEN (200 * lot_sqft + SQFT_PER_ACRE) \div (2 * SQFT_PER_ACRE)
    ELSE 0

\* the row cache_properties binds for a record with a non-empty address
\* line, written at UTC instant t
row_of(prop, zip_code, t) ==
    LET lot_sqft == Or2(prop.desc_lot_sqft, prop.lot_sqft)
        bathrooms_full == Or3(prop.desc_baths_full, prop.baths_full, prop.desc_baths)
        bathrooms_half == Or2(prop.desc_baths_half, prop.baths_half)
        year_built == Or2(prop.desc_year_built, prop.year_built)
    IN [zip_code |-> zip_code,
        address |-> cached_address[address_line(prop)],
        bedrooms |-> Or3(prop.desc_beds, prop.beds, prop.desc_beds_min),
        bathrooms |-> 2 * bathrooms_full + bathrooms_half,
        sqft |-> Or3(prop.desc_sqft, prop.sqft, prop.desc_lot_sqft),
        lot_sqft |-> lot_sqft,
        lot_acres |-> lot_acres_of(lot_sqft),
        garage_cars |-> Or4(prop.desc_garage, prop.garage,
                            prop.desc_garage_spaces, prop.garage_spaces),
        year_built |-> IF year_built # 0 THEN Some(year_built) ELSE Null,
        property_type |-> OrS2(OrS3(prop.desc_type, prop.prop_type, prop.type),
                               "Unknown"),
        price |-> price_of(prop),
        photo_url |-> photo_url_of(prop),
        raw_data |-> prop,
        last_updated |-> CURRENT_TIMESTAMP(t)]

\* the key of the UNIQUE(zip_code, address) constraint
KeyOf(row) == <<row.zip_code, row.address>>

\* INSERT OR IGNORE: a write that leaves the row of an existing key alone
insert_or_ignore(table, row) ==
    IF \E r \in table : <<r.zip_code, r.address>> = <<row.zip_code, row.address>>
    THEN table
    ELSE table \cup {row}

\* a write that first deletes the rows of the row's ZIP code
refresh_zip(table, row) ==
    {r \in table : r.zip_code # row.zip_code} \cup {row}

\* INSERT ... ON CONFLICT(zip_code, address) DO UPDATE SET every other
\* column and last_updated
upsert(table, row) ==
    {r \in table : KeyOf(r) # KeyOf(row)} \cup {row}

RECURSIVE cache_until_error(_, _, _, _, _)
\* a caching loop that a raising record ends
cache_until_error(table, properties, i, zip_code, t) ==
    IF i > Len(properties) THEN table
    ELSE IF address_line(properties[i]) = <<>>
         THEN cache_until_error(table, properties, i + 1, zip_code, t)
         ELSE IF raises(properties[i]) THEN table
         ELSE cache_until_error(upsert(table, row_of(properties[i], zip_code, t)),
                                properties, i + 1, zip_code, t)

\* the loop of cache_properties from record i on: a record without an
\* address line is skipped, and so is a record that raises (except
\* Exception: print, continue)
RECURSIVE cache_from(_, _, _, _, _)
cache_from(table, properties, i, zip_code, t) ==
    IF i > Len(properties) THEN table
    ELSE IF address_line(properties[i]) = <<>>
         THEN cache_from(table, properties, i + 1, zip_code, t)
         ELSE IF raises(properties[i])
         THEN cache_from(table, properties, i + 1, zip_code, t)
         ELSE cache_from(upsert(table, row_of(properties[i], zip_code, t)),
                         properties, i + 1, zip_code, t)

\* the number of "Error caching property" lines a pass prints
caching_errors(properties) ==
    Cardinality({i \in DOMAIN properties :
                    address_line(properties[i]) # <<>> /\ raises(properties[i])})

\* cached_count at the end of a pass
cached_count(properties) ==
    Cardinality({i \in DOMAIN properties :
                    address_line(properties[i]) # <<>> /\ ~raises(properties[i])})

\* a caching that stops after the first record of the list
cache_first_record(table, properties, zip_code, t) ==
    IF properties = <<>> THEN table
    ELSE cache_from(table, <<properties[1]>>, 1, zip_code, t)

\* cache_properties(properties, zip_code) at UTC instant t
cache_properties(table, properties, zip_code, t) ==
    IF properties = <<>> THEN table
    ELSE cache_from(table, properties, 1, zip_code, t)

\* the rows a query with cutoff (now - days) selects: last_updated > ?
fresh_rows(table, t, offset, days) ==
    {r \in table : TextLess(cutoff_date(t, offset, days), r.last_updated)}

\* the match test of lookup_cached_property's loop
cached_match(search_address, row) ==
    LET cached_addr == strip(lower(row.address))
    IN Contains(cached_addr, search_address) \/ Contains(search_address, cached_addr)

\* the match test for each query key and each stored address
cached_match_of ==
    [k \in SearchKeys |->
        [c \in CachedAddresses |-> cached_match(k, [address |-> c])]]

\* the rows lookup_cached_property can return for a normalized address:
\* the first match of the rows of the ZIP code ordered by last_updated
\* DESC. Rows with equal last_updated come in an order SQLite does not
\* promise, so each matching row of the newest matching timestamp can be
\* the first.
lookup_rows(table, search_address, zip_code, t, offset) ==
    LET rows == {r \in fresh_rows(table, t, offset, FRESH_DAYS) :
                    r.zip_code = zip_code}
        hits == {r \in rows : cached_match_of[search_address][r.address]}
    IN {r \in hits :
           \A q \in hits : ~TextLess(r.last_updated, q.last_updated)}

\* the dict lookup_cached_property returns for a row
lookup_dict(address, row) ==
    [address |-> address, bedrooms |-> row.bedrooms,
     bathrooms |-> row.bathrooms, square_feet |-> row.sqft,
     lot_acres |-> row.lot_acres, garage_cars |-> row.garage_cars,
     year_built |-> row.year_built, property_type |-> row.property_type,
     price |-> row.price, photo_url |-> row.photo_url]

\* the dict search_cached_properties returns for a row
search_dict(row) ==
    [address |-> row.address, price |-> row.price, bedrooms |-> row.bedrooms,
     bathrooms |-> row.bathrooms, square_feet |-> row.sqft,
     lot_acres |-> row.lot_acres, garage_cars |-> row.garage_cars,
     photo_url |-> row.photo_url, property_type |-> row.property_type,
     year_built |-> row.year_built]

\* the rows search_cached_properties selects
search_rows(table, zip_code, max_price, t, offset, max_age_days) ==
    {r \in fresh_rows(table, t, offset, max_age_days) :
        /\ r.zip_code = zip_code
        /\ r.price # Null
        /\ r.price[1] <= max_price}

\* the orders ORDER BY price ASC can give a set of rows (rows of equal
\* price in either order)
price_orders(rows) ==
    {s \in [1..Cardinality(rows) -> rows] :
        /\ \A i, j \in DOMAIN s : i # j => s[i] # s[j]
        /\ \A i, j \in DOMAIN s : i < j => s[i].price[1] <= s[j].price[1]}

(***************************************************************************)
(* The cache operations as actions. written is a history variable: for    *)
(* every key ever written, the row of the most recent write to it (taken  *)
(* from the call's argument list, not from the table) and the last_updated *)
(* the key had before that call.                                          *)
(***************************************************************************)
\* the price ceilings the callers ask for
MaxPrices == {99999, 250000, 500000}

\* the times of day at which a behaviour starts
StartTicks == {0, TicksPerDay - 1}

CacheInit ==
    /\ features = HouseFeatures
    /\ score = NoScore
    /\ edits = 0
    /\ cache = {}
    /\ written = <<>>
    /\ now \in StartTicks
    /\ tz \in TZOffsets
    /\ advances = 0
    /\ writes = 0
    /\ result = Idle
    /\ writers = <<>>
    /\ houses = {}
    /\ seq = 0

\* time passes
Tick ==
    /\ result = Idle
    /\ advances < MaxAdvances
    /\ \E d \in Deltas : now' = now + d
    /\ advances' = advances + 1
    /\ result' = Idle
    /\ UNCHANGED <<cache, written, tz, writes>>
    /\ UNCHANGED restVars

\* the indices of the records of a list that are written under key k
IndicesFor(properties, zip_code, k) ==
    {i \in DOMAIN properties :
        /\ address_line(properties[i]) # <<>>
        /\ ~raises(properties[i])
        /\ <<zip_code, cached_address[address_line(properties[i])]>> = k}

Max(S) == CHOOSE x \in S : \A y \in S : y <= x

\* written after cache_properties(properties, zip_code) at instant t
record_writes(w, properties, zip_code, t) ==
    LET newkeys == {k \in {<<zip_code, cached_address[address_line(properties[i])]>> :
                              i \in DOMAIN properties} :
                       IndicesFor(properties, zip_code, k) # {}}
    IN [k \in (DOMAIN w) \cup newkeys |->
           IF k \in newkeys
           THEN [row |-> row_of(properties[Max(IndicesFor(properties, zip_code, k))],
                                zip_code, t),
                 prev |-> IF k \in DOMAIN w THEN Some(w[k].row.last_updated)
                          ELSE Null]
           ELSE w[k]]

\* a caller caches one of the lists Lists gives for a ZIP code
cache_pass(Lists) ==
    /\ result = Idle
    /\ writes < MaxWrites
    /\ \E zip_code \in Zips : \E properties \in Lists[zip_code] :
         /\ cache' = cache_properties(cache, properties, zip_code, now)
         /\ written' = record_writes(written, properties, zip_code, now)
         /\ result' = [op |-> "cache_properties", zip_code |-> zip_code,
                       properties |-> properties,
                       errors |-> caching_errors(properties),
                       cached_count |-> cached_count(properties)]
    /\ writes' = writes + 1
    /\ UNCHANGED <<now, tz, advances>>
    /\ UNCHANGED restVars

\* a caller caches the result list of a search for a ZIP code
call_cache_properties == cache_pass([zip_code \in Zips |-> Responses(zip_code)])

\* a caller caches a list that may hold records that cannot be stored
call_cache_records ==
    cache_pass([zip_code \in Zips |-> Responses(zip_code) \cup MalformedLists])

\* a caller looks an address up in the rows of a ZIP code
call_lookup_cached_property ==
    /\ result = Idle
    /\ \E address \in QueryAddresses : \E zip_code \in Zips :
         LET rows == lookup_rows(cache, search_key[address], zip_code, now, tz)
         IN \/ /\ rows = {}
               /\ result' = [op |-> "lookup_cached_property",
                             address |-> address, zip_code |-> zip_code,
                             row |-> Null, value |-> Null]
            \/ \E r \in rows :
                 result' = [op |-> "lookup_cached_property",
                            address |-> address, zip_code |-> zip_code,
                            row |-> Some(r),
                            value |-> Some(lookup_dict(address, r))]
    /\ UNCHANGED <<cache, written, now, tz, advances, writes>>
    /\ UNCHANGED restVars

\* a caller searches the rows of a ZIP code by price ceiling; the result
\* is None when no row is selected
call_search_cached_properties ==
    /\ result = Idle
    /\ \E zip_code \in Zips : \E max_price \in MaxPrices :
         LET rows == search_rows(cache, zip_code, max_price, now, tz, FRESH_DAYS)
         IN \E order \in price_orders(rows) :
              result' = [op |-> "search_cached_properties",
                         zip_code |-> zip_code, max_price |-> max_price,
                         rows |-> order,
                         value |-> IF rows = {} THEN Null
                                   ELSE Some([i \in DOMAIN order |->
                                                 search_dict(order[i])])]
    /\ UNCHANGED <<cache, written, now, tz, advances, writes>>
    /\ UNCHANGED restVars

\* the caller takes the result; the next operation starts after that
respond ==
    /\ result # Idle
    /\ result' = Idle
    /\ UNCHANGED <<cache, written, now, tz, advances, writes>>
    /\ UNCHANGED restVars

CacheNext ==
    \/ Tick
    \/ respond
    \/ call_cache_properties
    \/ call_lookup_cached_property
    \/ call_search_cached_properties

SpecCache == CacheInit /\ [][CacheNext]_vars

\* caching passes over lists of any records
PassNext ==
    \/ Tick
    \/ respond
    \/ call_cache_records

SpecPass == CacheInit /\ [][PassNext]_vars

Age(row) == now - (row.last_updated[1] * TicksPerDay + row.last_updated[3])

Days(n) == n * TicksPerDay

\* the rows a sequence holds
Range(s) == {s[i] : i \in DOMAIN s}

\* C4: a lookup or a price search never returns a row older than 360 days
\* (so none that is 361 days old), and a row that is 359 days old and
\* satisfies the other conditions of the query is returned by the price
\* search and keeps the lookup from answering None.
C4_FreshnessBoundary ==
    /\ result.op = "lookup_cached_property" =>
         /\ result.row # Null => Age(result.row[1]) <= Days(FRESH_DAYS)
         /\ \A r \in cache :
              /\ r.zip_code = result.zip_code
              /\ cached_match_of[search_key[result.address]][r.address]
              /\ Age(r) = Days(FRESH_DAYS - 1)
              => result.row # Null
    /\ result.op = "search_cached_properties" =>
         /\ \A r \in Range(result.rows) : Age(r) <= Days(FRESH_DAYS)
         /\ \A r \in cache :
              /\ r.zip_code = result.zip_code
              /\ r.price # Null
              /\ r.price[1] <= result.max_price
              /\ Age(r) = Days(FRESH_DAYS - 1)
              => r \in Range(result.rows)

\* containment either way between a query key and the stored address put
\* through the address normalizer
normalized_match ==
    [k \in SearchKeys |->
        [c \in CachedAddresses |->
            Contains(normalize(c), k) \/ Contains(k, normalize(c))]]

\* C5: lookup_cached_property answers with the newest row of the ZIP code
\* that is within 360 days old and whose stored address, put through the
\* address normalizer, contains or is contained in the normalized query;
\* it answers None when there is no such row. (A row exactly 360 days old
\* may count as within the window or not.)
C5_LookupIsNormalizedFirstMatch ==
    result.op = "lookup_cached_property" =>
        LET q == search_key[result.address]
            matching == {r \in cache :
                            /\ r.zip_code = result.zip_code
                            /\ normalized_match[q][r.address]}
            inside == {r \in matching : Age(r) < Days(FRESH_DAYS)}
        IN /\ inside # {} => result.row # Null
           /\ result.row # Null =>
                 /\ result.row[1] \in matching
                 /\ Age(result.row[1]) <= Days(FRESH_DAYS)
                 /\ \A h \in inside : Age(result.row[1]) <= Age(h)

\* C10: search_cached_properties returns exactly the rows of the ZIP code
\* that are within 360 days old and have a price that is not NULL and at
\* most max_price, in ascending order of price. (A row exactly 360 days old
\* may count as within the window or not.)
C10_SearchIsFreshPricedSorted ==
    result.op = "search_cached_properties" =>
        LET priced == {r \in cache : /\ r.zip_code = result.zip_code
                                     /\ r.price # Null
                                     /\ r.price[1] <= result.max_price}
        IN /\ {r \in priced : Age(r) < Days(FRESH_DAYS)} \subseteq Range(result.rows)
           /\ Range(result.rows) \subseteq {r \in priced : Age(r) <= Days(FRESH_DAYS)}
           /\ \A i, j \in DOMAIN result.rows :
                 i < j => result.rows[i].price[1] <= result.rows[j].price[1]

(***************************************************************************)
(* main.py lookup_address. The handler is an async def that never awaits, *)
(* so it runs from its first statement to its return as one step.         *)
(***************************************************************************)
\* for prop in properties[:5]
SAMPLE_WINDOW == 5

\* found_addresses[:3]
SAMPLE_LIMIT == 3

\* what the POST to the listings search can come to, besides a result list
ApiFailures == {"403", "timeout", "request_error"}

Min(a, b) == IF a < b THEN a ELSE b

\* prop_address_raw of the matching loop, lower-cased
prop_address_raw(prop) == lower(address_line(prop))

\* prop_address of the matching loop: the unit designator removed (the
\* alternatives here do not include "d"), then strip()
prop_address(prop) == strip(SubUnits(prop_address_raw(prop), 1, UnitWords))

\* the test of lookup_cached_property's loop, applied to a returned record
\* as cache_properties would store it
match_as_cached(street_address, prop) ==
    LET cached_addr == strip(lower(address_line(prop)))
    IN \/ Contains(street_address, cached_addr)
       \/ Contains(cached_addr, street_address)

\* the test the matching loop applies to a record with an address
api_match(street_address, prop) ==
    LET number == street_number(street_address)
        prop_street_number == street_number(prop_address(prop))
    IN IF number # <<>> /\ prop_street_number = number
       THEN \/ Contains(street_address, prop_address(prop))
            \/ Contains(prop_address(prop), street_address)
       ELSE \/ Contains(street_address, prop_address_raw(prop))
            \/ Contains(prop_address_raw(prop), street_address)

\* the matching loop from record i on: the index of matched_property, 0
\* when the loop ends without a match
RECURSIVE match_from(_, _, _)
match_from(properties, i, street_address) ==
    IF i > Len(properties) THEN 0
    ELSE IF /\ address_line(properties[i]) # <<>>
            /\ api_match(street_address, properties[i])
         THEN i
         ELSE match_from(properties, i + 1, street_address)

\* the sample addresses of the 404: the location.address lines of the
\* first five records, cut to three
found_addresses(properties) ==
    LET first == SubSeq(properties, 1, Min(SAMPLE_WINDOW, Len(properties)))
        located == SelectSeq(first, LAMBDA prop : prop.kind = "location")
        lines == [i \in DOMAIN located |-> located[i].line]
    IN SubSeq(lines, 1, Min(SAMPLE_LIMIT, Len(lines)))

RECURSIVE strip_commas(_)
\* str.strip(',')
strip_commas(s) ==
    IF s = <<>> THEN s
    ELSE IF Head(s) = "," THEN strip_commas(Tail(s))
    ELSE IF s[Len(s)] = "," THEN strip_commas(SubSeq(s, 1, Len(s) - 1))
    ELSE s

\* full_address: the location's line, city, state_code and postal_code
\* (each "" for a record without location.address)
full_address(prop) ==
    LET location == IF prop.kind = "location" THEN prop ELSE EmptyProp
    IN strip_commas(strip(location.line \o <<",", " ">> \o location.city
                          \o <<",", " ">> \o location.state_code \o <<" ">>
                          \o location.postal_code))

\* the "data" of the answer built from matched_property (Step 3: the same
\* chains as cache_properties)
api_data(prop, address, zip_code) ==
    LET row == row_of(prop, zip_code, 0)
    IN [address |-> IF full_address(prop) # <<>> THEN full_address(prop)
                    ELSE address,
        bedrooms |-> row.bedrooms, bathrooms |-> row.bathrooms,
        square_feet |-> row.sqft, lot_acres |-> row.lot_acres,
        garage_cars |-> row.garage_cars, year_built |-> row.year_built,
        property_type |-> row.property_type, price |-> row.price,
        photo_url |-> row.photo_url]

\* the answer of a lookup_address call before any of its fields is known.
\* trace lists the steps the call went through, in order; api is what the
\* external search did ("none": it was not called).
Reply(address) ==
    [op |-> "lookup_address", address |-> address, status |-> 0,
     source |-> "none", api |-> "none", trace |-> <<>>, properties |-> <<>>,
     row |-> Null, matched |-> Null, data |-> Null,
     found_addresses |-> <<>>]

\* zip_code of lookup_address for each address (<<>>: no ZIP code found)
zip_code_of == [a \in QueryAddresses |-> zip_of(a)]

\* the status of the HTTPException an API failure is turned into
FailureStatus(failure) ==
    IF failure = "403" THEN 403
    ELSE IF failure = "timeout" THEN 504
    ELSE 502

\* the outcome of the matching loop for each address and result list
matched_index ==
    [a \in QueryAddresses |->
        [r \in AllResponses |-> match_from(r, 1, search_key[a])]]

\* "status" of the payload of lookup_address's external search
LOOKUP_STATUSES ==
    <<"for_sale", "ready_to_build", "sold", "for_rent", "pending", "off_market">>

\* written after lookup_address cached the records of its search: the keys
\* this call wrote carry the statuses its search asked for, until another
\* caller writes them again
record_lookup(w, properties, zip_code, t) ==
    LET after == record_writes(w, properties, zip_code, t)
    IN [k \in DOMAIN after |->
           IF IndicesFor(properties, zip_code, k) # {}
           THEN [row |-> after[k].row, prev |-> after[k].prev,
                 statuses |-> LOOKUP_STATUSES]
           ELSE after[k]]

\* GET /lookup_address?address=...
lookup_address ==
    /\ result = Idle
    /\ \E address \in QueryAddresses :
         LET zip_code == zip_code_of[address]
             street_address == search_key[address]
             hits == IF zip_code = <<>> THEN {}
                     ELSE lookup_rows(cache, street_address, zip_code, now, tz)
             looked == <<"lookup_cached_property">>
             searched == looked \o <<"external_search">>
         IN \/ \* RAPIDAPI_KEY is not set
               /\ result' = [Reply(address) EXCEPT !.status = 500]
               /\ UNCHANGED <<cache, written, writes>>
            \/ \* no ZIP code in the address
               /\ zip_code = <<>>
               /\ result' = [Reply(address) EXCEPT !.status = 400]
               /\ UNCHANGED <<cache, written, writes>>
            \/ \* cache hit
               /\ \E r \in hits :
                    result' = [Reply(address) EXCEPT
                                  !.status = 200, !.source = "cache",
                                  !.trace = looked, !.row = Some(r),
                                  !.data = Some(lookup_dict(address, r))]
               /\ UNCHANGED <<cache, written, writes>>
            \/ \* cache miss, the external search fails
               /\ zip_code # <<>>
               /\ hits = {}
               /\ \E failure \in ApiFailures :
                    result' = [Reply(address) EXCEPT
                                  !.status = FailureStatus(failure),
                                  !.api = failure, !.trace = searched]
               /\ UNCHANGED <<cache, written, writes>>
            \/ \* cache miss, the external search returns no record
               /\ zip_code # <<>>
               /\ hits = {}
               /\ result' = [Reply(address) EXCEPT
                                !.status = 404, !.api = "empty",
                                !.trace = searched]
               /\ UNCHANGED <<cache, written, writes>>
            \/ \* cache miss, the external search returns records
               /\ zip_code # <<>>
               /\ hits = {}
               /\ writes < MaxWrites
               /\ \E properties \in Responses(zip_code) :
                    LET i == matched_index[address][properties]
                        steps == searched \o <<"cache_properties", "match">>
                    IN /\ cache' = cache_properties(cache, properties, zip_code, now)
                       /\ written' = record_lookup(written, properties, zip_code, now)
                       /\ result' =
                            IF i = 0
                            THEN [Reply(address) EXCEPT
                                     !.status = 404, !.api = "ok",
                                     !.trace = steps,
                                     !.properties = properties,
                                     !.found_addresses = found_addresses(properties)]
                            ELSE [Reply(address) EXCEPT
                                     !.status = 200, !.source = "api",
                                     !.api = "ok", !.trace = steps,
                                     !.properties = properties,
                                     !.matched = Some(properties[i]),
                                     !.data = Some(api_data(properties[i],
                                                            address, zip_code))]
               /\ writes' = writes + 1
    /\ UNCHANGED <<now, tz, advances>>
    /\ UNCHANGED restVars

Init == CacheInit

Next ==
    \/ Tick
    \/ respond
    \/ lookup_address

Spec == Init /\ [][Next]_vars

(***************************************************************************)
(* Claims about lookup_address.                                            *)
(***************************************************************************)
\* the steps of a lookup that got as far as the matching loop
FullTrace == <<"lookup_cached_property", "external_search", "cache_properties", "match">>

\* a step of the system in which lookup_address ran and reached the cache
\* lookup (it had an API key and found a ZIP code in the address)
LookupRan == result'.op = "lookup_address" /\ result'.trace # <<>>

\* what lookup_cached_property answers for the call's address on the table
\* as it was before the call
HitsBefore ==
    lookup_rows(cache, search_key[result'.address],
                zip_code_of[result'.address], now, tz)

\* the parts of the state machine that do not depend on which records are
\* written: the external search runs only after a miss; a hit answers from
\* the cache at once and leaves the table alone; an answer that follows
\* returned records went through populate and then the match attempt
StateMachineOrder ==
    /\ "external_search" \in Range(result'.trace) => HitsBefore = {}
    /\ HitsBefore # {} =>
         /\ result'.trace = <<"lookup_cached_property">>
         /\ result'.source = "cache"
         /\ result'.status = 200
         /\ cache' = cache
    /\ result'.properties # <<>> =>
         /\ result'.trace = FullTrace
         /\ result'.status \in {200, 404}
    /\ result'.source = "api" => result'.properties # <<>>

\* record i of the returned list has its row in the table after the call
WrittenAfter(i) ==
    \E row \in cache' :
        /\ row.zip_code = zip_code_of[result'.address]
        /\ row.address = cached_address[address_line(result'.properties[i])]
        /\ row.last_updated = CURRENT_TIMESTAMP(now)

AfterMatchAttempt == result.op = "lookup_address" /\ result.trace = FullTrace

\* C7 as stated: after a miss, lookup_address answers FOUND exactly when
\* lookup_cached_property over the freshly cached rows matches the address,
\* and the record it selects is the one of a row that lookup can return.
C7_SamePassAsCacheLookup ==
    AfterMatchAttempt =>
        LET rows == lookup_rows(cache, search_key[result.address],
                                zip_code_of[result.address], now, tz)
        IN /\ result.status = 200 <=> rows # {}
           /\ result.status = 200 =>
                \E r \in rows :
                    r.address = cached_address[address_line(result.matched[1])]

\* the handler's own test, spelled out: with a street number in the query
\* and the same number leading the record's address, containment either
\* way between the query key and the record's lower-cased address without
\* its unit designator (unit, apt, apartment, suite, ste); otherwise
\* containment either way between the query key and the record's
\* lower-cased address as it is
HandlerRule(key, prop) ==
    LET raw == lower(prop.line)
        bare == strip(SubUnits(raw, 1, UnitWords))
    IN /\ prop.kind # "none"
       /\ prop.line # <<>>
       /\ IF DigitRun(key, 1) # <<>> /\ DigitRun(bare, 1) = DigitRun(key, 1)
          THEN Contains(key, bare) \/ Contains(bare, key)
          ELSE Contains(key, raw) \/ Contains(raw, key)

HandlerRuleOf ==
    [k \in SearchKeys |-> [prop \in AllProps |-> HandlerRule(k, prop)]]

\* C7 (amended): after a miss, lookup_address answers FOUND exactly when
\* some returned record passes the handler's own test, which is not the
\* test of lookup_cached_property, and it selects the first such record in
\* the order of the response.
C7_HandlerOwnPass ==
    AfterMatchAttempt =>
        LET key == search_key[result.address]
            passing == {i \in DOMAIN result.properties :
                           HandlerRuleOf[key][result.properties[i]]}
        IN /\ result.status = 200 <=> passing # {}
           /\ result.status = 200 =>
                \E i \in passing :
                    /\ result.matched = Some(result.properties[i])
                    /\ \A j \in passing : i <= j

\* FOUND after a miss for a record the cache lookup does not match: the
\* query "5 elm st north" against the record "5 Elm St Apt 2"
C7_Witness ==
    /\ AfterMatchAttempt
    /\ result.status = 200
    /\ result.address = ADDR_ELM_NORTH
    /\ result.matched = Some(PropElm)
    /\ lookup_rows(cache, search_key[result.address],
                   zip_code_of[result.address], now, tz) = {}

\* C8: a lookup whose normalized street key is empty is never answered
\* with a property, neither from the cache nor from the returned records.
C8_EmptyKeyNotFound ==
    /\ \A a \in QueryAddresses : Len(search_key[a]) >= 0
    /\ (result.op = "lookup_address" /\ search_key[result.address] = <<>>) =>
         /\ result.status # 200
         /\ result.row = Null
         /\ result.matched = Null

\* C9: a NotFound that follows returned records carries at most 3 sample
\* addresses, each the address of a returned record, and at least one
\* when some returned record has an address.
C9_SamplesPresent ==
    (AfterMatchAttempt /\ result.status = 404) =>
        /\ Len(result.found_addresses) <= SAMPLE_LIMIT
        /\ \A s \in Range(result.found_addresses) :
              \E i \in DOMAIN result.properties :
                  address_line(result.properties[i]) = s
        /\ (\E i \in DOMAIN result.properties :
                address_line(result.properties[i]) # <<>>)
           => result.found_addresses # <<>>

(***************************************************************************)
(* GET /search_properties: the price-ceiling search of a ZIP code.        *)
(***************************************************************************)
\* the callers: no X-User-ID header, a guest and a registered user
UserIds == {None, "guest", "user_1"}

\* not (user_id == "anonymous" or not user_id.startswith("user_"))
registered(user_id) == user_id = "user_1"

\* the ZIP codes the callers ask for: one of them has four digits
SearchZips == Zips \cup {<<"6", "2", "7", "0">>}

\* re.match(r'^\d{5}$', zip_code)
valid_zip(zip_code) == Len(zip_code) = 5 /\ DigitRun(zip_code, 1) = zip_code

\* "status" of the payload of the external search
ACTIVE_STATUSES == <<"for_sale", "ready_to_build">>

\* price = prop.get("list_price") or prop.get("price"); 0 when both miss
filter_price(prop) == Or2(prop.list_price, prop.price)

\* the dict the filter loop builds for a record it keeps, for each record
\* of the responses
search_item ==
    [prop \in AllProps |->
    LET lot_sqft == Or2(prop.desc_lot_sqft, prop.lot_sqft)
        year_built == Or2(prop.desc_year_built, prop.year_built)
    IN [address |-> IF full_address(prop) # <<>> THEN full_address(prop)
                    ELSE <<"A", "d", "d", "r", "e", "s", "s", " ", "n", "o", "t", " ", "a", "v", "a", "i", "l", "a", "b", "l", "e">>,
        price |-> Some(filter_price(prop)),
        bedrooms |-> Or2(prop.desc_beds, prop.beds),
        bathrooms |-> 2 * Or2(prop.desc_baths_full, prop.baths_full)
                      + Or2(prop.desc_baths_half, prop.baths_half),
        square_feet |-> Or2(prop.desc_sqft, prop.sqft),
        lot_acres |-> lot_acres_of(lot_sqft),
        garage_cars |-> Or2(prop.desc_garage, prop.garage),
        photo_url |-> photo_url_of(prop),
        property_type |-> OrS3(prop.desc_type, prop.prop_type, "Unknown"),
        year_built |-> IF year_built # 0 THEN Some(year_built) ELSE Null]]

RECURSIVE filter_from(_, _, _)
\* the filter loop from record i on: records without price or above
\* max_price are left out
filter_from(properties, i, max_price) ==
    IF i > Len(properties) THEN <<>>
    ELSE LET price == filter_price(properties[i])
             rest == filter_from(properties, i + 1, max_price)
         IN IF price = 0 \/ price > max_price THEN rest
            ELSE <<search_item[properties[i]]>> \o rest

RECURSIVE sort_by_price(_)
\* list.sort(key=lambda x: x["price"]): stable, items of equal price keep
\* their order
sort_by_price(items) ==
    IF items = <<>> THEN <<>>
    ELSE LET first == CHOOSE i \in DOMAIN items :
                         /\ \A j \in DOMAIN items :
                               items[i].price[1] <= items[j].price[1]
                         /\ \A j \in 1..(i - 1) :
                               items[j].price[1] # items[i].price[1]
         IN <<items[first]>>
            \o sort_by_price(SubSeq(items, 1, first - 1)
                             \o SubSeq(items, first + 1, Len(items)))

\* the answer of a search_properties call before any of its fields is
\* known: the answer to a caller turned away before the search says
\* nothing of the request. api is what the external search did ("none":
\* it was not called), calls the number of requests sent to it, returned
\* its result list.
SearchReply ==
    [op |-> "search_properties", zip_code |-> <<>>, max_price |-> 0,
     status |-> 0, detail |-> "none", source |-> "none", api |-> "none",
     calls |-> 0, statuses |-> <<>>, returned |-> <<>>, properties |-> <<>>]

\* GET /search_properties?zip_code=...&max_price=...
search_properties ==
    /\ result = Idle
    /\ \E user_id \in UserIds : \E zip_code \in SearchZips :
       \E max_price \in MaxPrices :
         LET reply == [SearchReply EXCEPT !.zip_code = zip_code,
                                          !.max_price = max_price]
             rows == search_rows(cache, zip_code, max_price, now, tz, FRESH_DAYS)
             asked == [reply EXCEPT !.calls = 1, !.statuses = ACTIVE_STATUSES]
             ready == registered(user_id) /\ valid_zip(zip_code) /\ rows = {}
         IN \/ \* the caller is not a registered user
               /\ ~registered(user_id)
               /\ result' = [SearchReply EXCEPT !.status = 403,
                                                !.detail = "not_registered"]
               /\ UNCHANGED <<cache, written, writes>>
            \/ \* RAPIDAPI_KEY is not set
               /\ registered(user_id)
               /\ result' = [SearchReply EXCEPT !.status = 500,
                                                !.detail = "no_api_key"]
               /\ UNCHANGED <<cache, written, writes>>
            \/ \* the ZIP code is not five digits
               /\ registered(user_id)
               /\ ~valid_zip(zip_code)
               /\ result' = [SearchReply EXCEPT !.status = 400,
                                                !.detail = "invalid_zip"]
               /\ UNCHANGED <<cache, written, writes>>
            \/ \* cache hit
               /\ registered(user_id)
               /\ valid_zip(zip_code)
               /\ rows # {}
               /\ \E order \in price_orders(rows) :
                    result' = [reply EXCEPT
                                  !.status = 200, !.source = "cache",
                                  !.properties = [i \in DOMAIN order |->
                                                     search_dict(order[i])]]
               /\ UNCHANGED <<cache, written, writes>>
            \/ \* cache miss, the external search fails
               /\ ready
               /\ \E failure \in ApiFailures :
                    result' = [asked EXCEPT
                                  !.status = FailureStatus(failure),
                                  !.detail = failure, !.api = failure]
               /\ UNCHANGED <<cache, written, writes>>
            \/ \* cache miss, the external search returns no record
               /\ ready
               /\ result' = [asked EXCEPT !.status = 404,
                                          !.detail = "no_properties",
                                          !.api = "empty"]
               /\ UNCHANGED <<cache, written, writes>>
            \/ \* cache miss, the external search returns records
               /\ ready
               /\ writes < MaxWrites
               /\ \E properties \in Responses(zip_code) :
                    /\ cache' = cache_properties(cache, properties, zip_code, now)
                    /\ written' = record_writes(written, properties, zip_code, now)
                    /\ result' =
                         [asked EXCEPT
                             !.status = 200, !.source = "api", !.api = "ok",
                             !.returned = properties,
                             !.properties =
                                 sort_by_price(filter_from(properties, 1,
                                                           max_price))]
               /\ writes' = writes + 1
    /\ UNCHANGED <<now, tz, advances>>
    /\ UNCHANGED restVars

(***************************************************************************)
(* GET /search_by_city: the price-ceiling search of every ZIP code of a   *)
(* city.                                                                   *)
(***************************************************************************)
\* the cities the callers ask for, with the ZIP codes the location service
\* knows for each; it knows none for Atlantis
CityZips ==
    [city \in {"Springfield", "Atlantis"} |->
        IF city = "Springfield" THEN <<ZIP_SPRINGFIELD, ZIP_BOULDER>>
        ELSE <<>>]

\* re.match(r'^[A-Z]{2}$', state.upper())
valid_state(state) ==
    /\ Len(state) = 2
    /\ \A i \in 1..2 : \E k \in 1..26 : lower(state)[i] = LowerChars[k]

\* what the location service can do when asked for a city: answer 200 with
\* its places (none for a place it does not know), answer 404 for a place
\* it does not know, answer another status, or fail (timeout, no
\* connection)
GeoAnswers(city) ==
    {[kind |-> "places", places |-> CityZips[city]],
     [kind |-> "server_error", places |-> <<>>],
     [kind |-> "exception", places |-> <<>>]}
    \cup (IF CityZips[city] = <<>>
          THEN {[kind |-> "not_found", places |-> <<>>]}
          ELSE {})

\* the list get_zip_codes_for_city returns for an answer of the location
\* service: [] for every status but 200 and for every exception
get_zip_codes_for_city(answer) ==
    IF answer.kind = "places" THEN answer.places ELSE <<>>

\* a merge that keeps every item
keep_all(items) == items

\* items without the items whose address an earlier item has
unique_properties(items) ==
    LET kept == {i \in DOMAIN items :
                    \A j \in 1..(i - 1) : items[j].address # items[i].address}
    IN [k \in 1..Cardinality(kept) |->
           items[CHOOSE i \in kept : Cardinality({j \in kept : j < i}) = k - 1]]

RECURSIVE city_loop(_, _, _, _, _, _)
\* the ways the loop over the ZIP codes can go from zip_codes[i] on. run
\* holds the table, the loop's variables and log, which has for every ZIP
\* code so far the outcome ("hit", "ok": records returned, "empty", or a
\* failure of the external search) and the records returned.
city_loop(run, zip_codes, i, max_price, t, offset) ==
    IF i > Len(zip_codes) THEN {run}
    ELSE
      LET zip_code == zip_codes[i]
          rows == search_rows(run.cache, zip_code, max_price, t, offset, FRESH_DAYS)
          hit(order) ==
              [run EXCEPT
                  !.all_properties = @ \o [k \in DOMAIN order |->
                                              search_dict(order[k])],
                  !.searched_zips = Append(@, zip_code),
                  !.cache_hits = @ + 1,
                  !.log = Append(@, [outcome |-> "hit", returned |-> <<>>])]
          missed == [run EXCEPT !.api_calls = @ + 1]
          skipped(outcome) ==
              [missed EXCEPT
                  !.log = Append(@, [outcome |-> outcome, returned |-> <<>>])]
          item(entry) == ("zip_code" :> zip_code) @@ entry
          filtered(properties) == filter_from(properties, 1, max_price)
          fetched(properties) ==
              [missed EXCEPT
                  !.cache = cache_properties(@, properties, zip_code, t),
                  !.written = record_writes(@, properties, zip_code, t),
                  !.writes = @ + 1,
                  !.all_properties =
                      @ \o [k \in DOMAIN filtered(properties) |->
                               item(filtered(properties)[k])],
                  !.searched_zips = Append(@, zip_code),
                  !.log = Append(@, [outcome |-> "ok", returned |-> properties])]
          after ==
              IF rows # {}
              THEN {hit(order) : order \in price_orders(rows)}
              ELSE {skipped(outcome) : outcome \in ApiFailures \cup {"empty"}}
                   \cup (IF run.writes < MaxWrites
                         THEN {fetched(properties) :
                                  properties \in Responses(zip_code)}
                         ELSE {})
      IN UNION {city_loop(r, zip_codes, i + 1, max_price, t, offset) :
                   r \in after}

\* the answer of a search_by_city call before any of its fields is
\* known: the answer to a caller turned away before the search says
\* nothing of the request. geo is the answer of the location service,
\* detail the reason of an error answer.
CityReply ==
    [op |-> "search_by_city", city |-> "", max_price |-> 0, status |-> 0,
     detail |-> "none", geo |-> "none", zip_codes |-> <<>>, log |-> <<>>,
     zip_codes_searched |-> <<>>, cache_hits |-> 0, api_calls |-> 0,
     properties |-> <<>>]

\* GET /search_by_city?city=...&state=...&max_price=...
search_by_city ==
    /\ result = Idle
    /\ \E user_id \in UserIds : \E city \in DOMAIN CityZips :
       \E state \in {<<"i", "l">>, <<"I", "l", "l", "i", "n", "o", "i", "s">>} : \E max_price \in MaxPrices :
         LET start == [cache |-> cache, written |-> written, writes |-> writes,
                       all_properties |-> <<>>, searched_zips |-> <<>>,
                       cache_hits |-> 0, api_calls |-> 0, log |-> <<>>]
         IN \/ \* the caller is not a registered user
               /\ ~registered(user_id)
               /\ result' = [CityReply EXCEPT !.status = 403,
                                              !.detail = "not_registered"]
               /\ UNCHANGED <<cache, written, writes>>
            \/ \* RAPIDAPI_KEY is not set
               /\ registered(user_id)
               /\ result' = [CityReply EXCEPT !.status = 500,
                                              !.detail = "no_api_key"]
               /\ UNCHANGED <<cache, written, writes>>
            \/ \* the state is not two letters
               /\ registered(user_id)
               /\ ~valid_state(state)
               /\ result' = [CityReply EXCEPT !.status = 400,
                                              !.detail = "invalid_state"]
               /\ UNCHANGED <<cache, written, writes>>
            \/ \* no ZIP code for the city
               /\ registered(user_id)
               /\ valid_state(state)
               /\ \E answer \in GeoAnswers(city) :
                    /\ get_zip_codes_for_city(answer) = <<>>
                    /\ result' = [CityReply EXCEPT !.city = city,
                                                   !.status = 404,
                                                   !.detail = "no_zip_codes",
                                                   !.geo = answer.kind]
               /\ UNCHANGED <<cache, written, writes>>
            \/ \* the loop over the ZIP codes of the city
               /\ registered(user_id)
               /\ valid_state(state)
               /\ \E answer \in GeoAnswers(city) :
                    LET zip_codes == get_zip_codes_for_city(answer)
                    IN /\ zip_codes # <<>>
                       /\ \E run \in city_loop(start, zip_codes, 1, max_price,
                                               now, tz) :
                            LET looped == [CityReply EXCEPT
                                              !.city = city,
                                              !.max_price = max_price,
                                              !.geo = answer.kind,
                                              !.zip_codes = zip_codes,
                                              !.log = run.log]
                            IN /\ cache' = run.cache
                               /\ written' = run.written
                               /\ writes' = run.writes
                               /\ result' =
                                    IF run.all_properties = <<>>
                                    THEN [looped EXCEPT
                                             !.status = 404,
                                             !.detail = "no_properties"]
                                    ELSE [looped EXCEPT
                                             !.status = 200,
                                             !.zip_codes_searched = run.searched_zips,
                                             !.cache_hits = run.cache_hits,
                                             !.api_calls = run.api_calls,
                                             !.properties =
                                                 sort_by_price(unique_properties(
                                                     run.all_properties))]
    /\ UNCHANGED <<now, tz, advances>>
    /\ UNCHANGED restVars

(***************************************************************************)
(* The specifications of the search handlers. SpecSearch is the price     *)
(* search of a ZIP code over time. SpecCity is the city search on tables  *)
(* filled by earlier calls, at one instant. SpecService is the service    *)
(* over time with every operation that writes the cache except the purge. *)
(***************************************************************************)
SearchNext ==
    \/ Tick
    \/ respond
    \/ search_properties

SpecSearch == Init /\ [][SearchNext]_vars

CityNext ==
    \/ respond
    \/ call_cache_properties
    \/ search_by_city

SpecCity == Init /\ [][CityNext]_vars

ServiceNext ==
    \/ Tick
    \/ respond
    \/ call_cache_properties
    \/ lookup_address
    \/ search_properties
    \/ search_by_city

SpecService == Init /\ [][ServiceNext]_vars

(***************************************************************************)
(* Claims about search_properties.                                         *)
(***************************************************************************)
\* a search_properties step that gets as far as the cache search
SearchRan ==
    /\ result = Idle
    /\ result'.op = "search_properties"
    /\ result'.detail \notin {"not_registered", "no_api_key", "invalid_zip"}

\* the rows of the table a price search of the ZIP code is about: a price
\* that is not NULL and at most max_price
PricedRows(zip_code, max_price) ==
    {r \in cache : /\ r.zip_code = zip_code
                   /\ r.price # Null
                   /\ r.price[1] <= max_price}

\* C11: a price-ceiling search calls the external search (once, for the
\* active-listing statuses) when the cache holds no row of the ZIP code
\* within 360 days old with a price at most max_price, and does not call it
\* when the cache holds one (a row exactly 360 days old may count either
\* way); when the external search returns records, every returned record
\* with an address line is in the cache afterwards and the answer is the
\* returned records priced at most max_price, in ascending order of price.
C11_CacheFirstSearch ==
    [][SearchRan =>
        LET priced == PricedRows(result'.zip_code, result'.max_price)
            returned == result'.returned
            kept == {i \in DOMAIN returned :
                        /\ filter_price(returned[i]) # 0
                        /\ filter_price(returned[i]) <= result'.max_price}
            answer == result'.properties
        IN /\ (\E r \in priced : Age(r) < Days(FRESH_DAYS)) => result'.calls = 0
           /\ (\A r \in priced : Age(r) > Days(FRESH_DAYS)) =>
                 /\ result'.calls = 1
                 /\ result'.statuses = ACTIVE_STATUSES
           /\ result'.api = "ok" =>
                 /\ \A i \in DOMAIN returned :
                       address_line(returned[i]) # <<>> =>
                          \E r \in cache' :
                             KeyOf(r) = <<result'.zip_code,
                                          cached_address[address_line(returned[i])]>>
                 /\ Len(answer) = Cardinality(kept)
                 /\ \A i \in kept : search_item[returned[i]] \in Range(answer)
                 /\ \A i, j \in DOMAIN answer :
                       i < j => answer[i].price[1] <= answer[j].price[1]
    ]_vars

(***************************************************************************)
(* Claims about search_by_city.                                            *)
(***************************************************************************)
\* a search_by_city step that answers with properties
CityAnswered ==
    /\ result = Idle
    /\ result'.op = "search_by_city"
    /\ result'.status = 200

\* the items the price-ceiling search of ZIP code i of the answer gives:
\* the selected rows of the table on a cache hit, the filtered records of
\* the external search with their ZIP code otherwise (none when the
\* external search failed or returned nothing)
ZipItems(i) ==
    LET zip_code == result'.zip_codes[i]
        entry == result'.log[i]
        rows == search_rows(cache, zip_code, result'.max_price, now, tz, FRESH_DAYS)
    IN IF entry.outcome = "hit" THEN {search_dict(r) : r \in rows}
       ELSE {("zip_code" :> zip_code) @@ search_item[entry.returned[k]] :
                k \in {k \in DOMAIN entry.returned :
                          /\ filter_price(entry.returned[k]) # 0
                          /\ filter_price(entry.returned[k]) <= result'.max_price}}

\* C12: search_by_city goes through the resolved ZIP codes one by one; for
\* each it answers from the cache when the cache search selects rows for
\* that ZIP code and asks the external search otherwise, whatever happened
\* for the other ZIP codes. The answer holds, for every address found for
\* any ZIP code, one of the items found with that address and nothing
\* else, in ascending order of price, every price at most max_price;
\* cache_hits + api_calls is the number of ZIP codes processed and every
\* searched ZIP code is a resolved one.
C12_CityMergesPerZipSearches ==
    [][CityAnswered =>
        LET answer == result'.properties
            zips == result'.zip_codes
            merged == UNION {ZipItems(i) : i \in DOMAIN zips}
        IN /\ Len(result'.log) = Len(zips)
           /\ \A i \in DOMAIN zips :
                 result'.log[i].outcome = "hit" <=>
                    search_rows(cache, zips[i], result'.max_price, now, tz,
                                FRESH_DAYS) # {}
           /\ Range(answer) \subseteq merged
           /\ {e.address : e \in merged} = {e.address : e \in Range(answer)}
           /\ \A i, j \in DOMAIN answer :
                 i # j => answer[i].address # answer[j].address
           /\ \A i, j \in DOMAIN answer :
                 i < j => answer[i].price[1] <= answer[j].price[1]
           /\ \A i \in DOMAIN answer : answer[i].price[1] <= result'.max_price
           /\ result'.cache_hits + result'.api_calls = Len(zips)
           /\ result'.cache_hits =
                 Cardinality({i \in DOMAIN zips : result'.log[i].outcome = "hit"})
           /\ Range(result'.zip_codes_searched) \subseteq Range(zips)
    ]_vars

\* a city search that answered one ZIP code from the external search, with
\* the same address returned twice, and the other from the cache
C12_Witness ==
    /\ result.op = "search_by_city"
    /\ result.status = 200
    /\ result.max_price = 500000
    /\ result.log[1].outcome = "ok"
    /\ result.log[1].returned = <<PropMainRelisted, PropNoAddress, PropMain, PropMainRelisted>>
    /\ result.log[2].outcome = "hit"
    /\ result.cache_hits = 1
    /\ result.api_calls = 1
    /\ Len(result.properties) >= 4

(***************************************************************************)
(* property_cache.py clear_old_cache: the purge of old rows.              *)
(***************************************************************************)
\* the default of clear_old_cache's days
PURGE_DAYS == 90

\* the table after DELETE FROM cached_properties WHERE last_updated < ?
\* with the cutoff (now - days) in local isoformat
clear_old_cache(table, t, offset, days) ==
    {r \in table : ~TextLess(r.last_updated, cutoff_date(t, offset, days))}

\* a caller purges the rows older than days; the result is the number of
\* rows deleted (before: the table the call found)
call_clear_old_cache ==
    /\ result = Idle
    /\ \E days \in {PURGE_DAYS, FRESH_DAYS - 1, FRESH_DAYS} :
         /\ cache' = clear_old_cache(cache, now, tz, days)
         /\ result' = [op |-> "clear_old_cache", days |-> days,
                       before |-> cache,
                       value |-> Cardinality(cache) - Cardinality(cache')]
    /\ UNCHANGED <<written, now, tz, advances, writes>>
    /\ UNCHANGED restVars

PurgeNext ==
    \/ Tick
    \/ respond
    \/ call_cache_properties
    \/ call_search_cached_properties
    \/ call_clear_old_cache

SpecPurge == CacheInit /\ [][PurgeNext]_vars

\* C13: clear_old_cache(days) deletes the rows that are more than days old
\* and no row that is less than days old (a row exactly days old may go
\* either way), changes no row it keeps, adds none, and returns the number
\* of rows it deleted.
C13_PurgeDeletesExactlyOldRows ==
    result.op = "clear_old_cache" =>
        /\ cache \subseteq result.before
        /\ \A r \in result.before :
              /\ Age(r) > Days(result.days) => r \notin cache
              /\ Age(r) < Days(result.days) => r \in cache
        /\ result.value = Cardinality(result.before \ cache)

(***************************************************************************)
(* Claims about the service as a whole.                                    *)
(***************************************************************************)
\* C14: as long as clear_old_cache is not called, every (zip_code,
\* address) key that was ever written to the cache has a row in it,
\* whatever lookups, price searches, city searches and cache_properties
\* calls came after the write and however old the row has become.
C14_StoredKeysStay ==
    \A k \in DOMAIN written : \E r \in cache : KeyOf(r) = k

\* a city search that wrote the rows of one ZIP code and passed over the
\* rows of the other, which are older than 360 days and still there
C14_Witness ==
    /\ result.op = "search_by_city"
    /\ result.status = 200
    /\ result.log[1].outcome = "ok"
    /\ result.log[2].outcome \notin {"hit", "ok"}
    /\ \E r \in cache : r.zip_code = ZIP_BOULDER /\ Age(r) > Days(FRESH_DAYS)
    /\ C14_StoredKeysStay

\* what the external search did in the calls the answered operation made
\* to it: one call at most for an address lookup and a price search, one
\* per ZIP code that missed the cache for a city search
ExternalOutcomes ==
    IF result.op \in {"lookup_address", "search_properties"}
    THEN {result.api} \ {"none"}
    ELSE IF result.op = "search_by_city"
    THEN {result.log[i].outcome : i \in DOMAIN result.log} \ {"hit"}
    ELSE {}

\* the operation sent each of its searches to the external search once
SearchedOnce ==
    /\ result.op = "lookup_address" =>
          Cardinality({i \in DOMAIN result.trace :
                          result.trace[i] = "external_search"}) <= 1
    /\ result.op = "search_properties" => result.calls <= 1
    /\ result.op = "search_by_city" => Len(result.log) <= Len(result.zip_codes)

\* C15: an address lookup, price search or city search whose external
\* search answered 403 ends with the upstream-authentication error (status
\* 403); one whose external search timed out, failed in transport,
\* returned nothing or returned records does not end with it; and the
\* search is sent once.
C15_AuthFailureSurfaced ==
    /\ "403" \in ExternalOutcomes => result.status = 403
    /\ ("403" \notin ExternalOutcomes /\ ExternalOutcomes # {}) =>
          result.status # 403
    /\ SearchedOnce

\* C16: an address lookup, price search or city search whose external
\* search timed out ends with the upstream-timeout error (status 504); one
\* whose external search did anything else does not end with it; and the
\* search is sent once.
C16_TimeoutSurfaced ==
    /\ "timeout" \in ExternalOutcomes => result.status = 504
    /\ ("timeout" \notin ExternalOutcomes /\ ExternalOutcomes # {}) =>
          result.status # 504
    /\ SearchedOnce

\* C17: a city search that asked the location service answers 'no ZIP
\* codes found for the city' exactly when the service answered that it
\* knows no place of that name (200 with no places, or 404); in
\* particular not when the service failed, and then the search does not
\* answer 'no properties found' either.
C17_UnknownCityOnlyForValidEmpty ==
    (result.op = "search_by_city" /\ result.geo # "none") =>
        LET unknown_city == result.status = 404 /\ result.detail = "no_zip_codes"
            no_listings == result.status = 404 /\ result.detail = "no_properties"
            valid_empty == \/ result.geo = "not_found"
                           \/ /\ result.geo = "places"
                              /\ CityZips[result.city] = <<>>
        IN /\ unknown_city <=> valid_empty
           /\ no_listings => ~valid_empty

(***************************************************************************)
(* Claims about the caching pass.                                          *)
(***************************************************************************)
\* C18: after a caching pass over a list, every record of the list that
\* has an address line and does not raise is in the table, under its key,
\* as the row of the last such record with that key, written at the time
\* of the pass, wherever the raising records stand in the list and however
\* many they are; no raising record is stored; and the pass printed one
\* error line for each raising record.
C18_PassSkipsOnlyFailingRecords ==
    result.op = "cache_properties" =>
        LET records == result.properties
            key(i) == <<result.zip_code, cached_address[address_line(records[i])]>>
            good == {i \in DOMAIN records :
                        address_line(records[i]) # <<>> /\ ~raises(records[i])}
            bad == {i \in DOMAIN records : raises(records[i])}
        IN /\ \A i \in good :
                 \E r \in cache :
                    /\ KeyOf(r) = key(i)
                    /\ r = row_of(records[Max({j \in good : key(j) = key(i)})],
                                  result.zip_code, now)
           /\ \A r \in cache : ~raises(r.raw_data)
           /\ result.errors = Cardinality(bad)
           /\ result.cached_count = Cardinality(good)

\* a pass over a list that starts and ends with a raising record and has
\* one between two well-formed records, into a table that held rows
C18_Witness ==
    /\ result.op = "cache_properties"
    /\ result.properties = <<PropBroken, PropMain, PropUnbindable, PropOak, PropBroken>>
    /\ result.errors = 3
    /\ result.cached_count = 2
    /\ writes = 2
    /\ \E r \in cache : r.raw_data = PropMain /\ r.last_updated = CURRENT_TIMESTAMP(now)
    /\ \E r \in cache : r.raw_data = PropOak /\ r.last_updated = CURRENT_TIMESTAMP(now)

\* ---------------------------------------------------------------------
\* cache_properties run by several processes side by side.  Each call
\* opens its own connection; its first INSERT begins a transaction that
\* holds the database's write lock until conn.commit(), and the rows it
\* writes are seen by the others only then.  An INSERT that finds the lock
\* held by another connection waits for it and, when the wait runs out,
\* raises "database is locked", which the loop prints before it goes on
\* with the next record.
\* ---------------------------------------------------------------------

\* the processes that may run cache_properties at the same time
Writers == {"w1", "w2"}

\* a store with no write lock: every connection writes into its own
\* snapshot whatever the others do
always_writable(ws, w) == TRUE

\* the write lock is free for w: no other connection has an open transaction
can_write(ws, w) == \A v \in DOMAIN ws \ {w} : ws[v].pending = Null

\* sqlite3.connect: a process enters cache_properties with a list
begin_pass(w) ==
    /\ result = Idle
    /\ w \notin DOMAIN writers
    /\ writes < MaxWrites
    /\ \E zip_code \in Zips : \E properties \in Responses(zip_code) :
         writers' = (w :> [state |-> "running", zip_code |-> zip_code,
                           properties |-> properties, i |-> 1,
                           pending |-> Null, wrote |-> <<>>,
                           errors |-> {}]) @@ writers
    /\ writes' = writes + 1
    /\ UNCHANGED <<cache, written, now, tz, advances, result>>
    /\ UNCHANGED scoreVars
    /\ UNCHANGED storeVars

\* one turn of the loop of w: the record is skipped for its empty address,
\* or upserted into the transaction of w, or given up with a printed error
\* after the wait for the lock ran out
write_record(w) ==
    /\ result = Idle
    /\ w \in DOMAIN writers
    /\ writers[w].state = "running"
    /\ writers[w].i <= Len(writers[w].properties)
    /\ LET me == writers[w]
           prop == me.properties[me.i]
           row == row_of(prop, me.zip_code, now)
           view == IF me.pending = Null THEN cache ELSE me.pending[1]
       IN IF address_line(prop) = <<>>
          THEN writers' = [writers EXCEPT ![w].i = @ + 1]
          ELSE IF can_write(writers, w)
          THEN writers' = [writers EXCEPT
                             ![w].pending = Some(upsert(view, row)),
                             ![w].wrote = (KeyOf(row) :> row) @@ @,
                             ![w].i = @ + 1]
          ELSE writers' = [writers EXCEPT
                             ![w].errors = @ \cup {me.i},
                             ![w].i = @ + 1]
    /\ UNCHANGED <<cache, written, now, tz, advances, writes, result>>
    /\ UNCHANGED scoreVars
    /\ UNCHANGED storeVars

\* conn.commit() of w after its loop: the rows of its transaction replace
\* those of their keys in the store and the lock is released
commit(w) ==
    /\ result = Idle
    /\ w \in DOMAIN writers
    /\ writers[w].state = "running"
    /\ writers[w].i > Len(writers[w].properties)
    /\ LET me == writers[w]
       IN /\ cache' = IF me.pending = Null THEN cache ELSE me.pending[1]
          /\ written' = [k \in (DOMAIN written) \cup (DOMAIN me.wrote) |->
                           IF k \in DOMAIN me.wrote
                           THEN [row |-> me.wrote[k],
                                 prev |-> IF k \in DOMAIN written
                                          THEN Some(written[k].row.last_updated)
                                          ELSE Null]
                           ELSE written[k]]
          /\ writers' = [writers EXCEPT ![w].state = "done",
                                        ![w].pending = Null]
    /\ UNCHANGED <<now, tz, advances, writes, result>>
    /\ UNCHANGED scoreVars
    /\ UNCHANGED storeVars

\* conn.close() and the return of w
end_pass(w) ==
    /\ result = Idle
    /\ w \in DOMAIN writers
    /\ writers[w].state = "done"
    /\ writers' = [v \in DOMAIN writers \ {w} |-> writers[v]]
    /\ UNCHANGED <<cache, written, now, tz, advances, writes, result>>
    /\ UNCHANGED scoreVars
    /\ UNCHANGED storeVars

run_begin_pass == \E w \in Writers : begin_pass(w)

run_write_record == \E w \in Writers : write_record(w)

run_commit == \E w \in Writers : commit(w)

run_end_pass == \E w \in Writers : end_pass(w)

\* the passes are short against a tick of the clock, which stands still
\* while they run: the rows of two writers differ by their records
WritersNext ==
    run_begin_pass \/ run_write_record \/ run_commit \/ run_end_pass

SpecWriters == CacheInit /\ [][WritersNext]_vars

\* C19: when processes run cache_properties side by side and write the
\* same (zip_code, address) key, the store holds one row for each key;
\* every field of a row is the one that a single record gives, with no
\* field of another writer's record mixed in; the row of a key is the one
\* of the transaction that committed last; and every addressed record of a
\* finished writer has a row under its key unless its write raised an
\* error that the writer printed
C19_ConcurrentUpsertsKeepWholeRows ==
    /\ \A r1 \in cache : \A r2 \in cache : KeyOf(r1) = KeyOf(r2) => r1 = r2
    /\ \A r \in cache :
         r = [row_of(r.raw_data, r.zip_code, 0) EXCEPT
                 !.last_updated = r.last_updated]
    /\ \A k \in DOMAIN written : written[k].row \in cache
    /\ \A w \in DOMAIN writers :
         writers[w].state = "done" =>
           \A i \in DOMAIN writers[w].properties :
             LET prop == writers[w].properties[i]
             IN (address_line(prop) # <<>> /\ i \notin writers[w].errors)
                  => \E r \in cache :
                       KeyOf(r) = <<writers[w].zip_code,
                                    cached_address[address_line(prop)]>>

\* two writers whose passes overlapped (one of them met the lock of the
\* other) have both finished after writing different records under one key
C19_Witness ==
    /\ DOMAIN writers = Writers
    /\ \A w \in Writers : writers[w].state = "done"
    /\ \E w \in Writers : writers[w].errors # {}
    /\ \E k \in DOMAIN writers["w1"].wrote :
         /\ k \in DOMAIN writers["w2"].wrote
         /\ writers["w1"].wrote[k].raw_data # writers["w2"].wrote[k].raw_data

\* ---------------------------------------------------------------------
\* The price of an external record, at each place that extracts it
\* ---------------------------------------------------------------------

\* the first candidate that is neither null nor zero, of list_price, price
\* and description.sold_price in this order
first_price(prop) ==
    LET candidates == <<prop.list_price, prop.price, prop.desc_sold_price>>
        present == {i \in DOMAIN candidates : candidates[i] # 0}
    IN IF present = {} THEN Null
       ELSE Some(candidates[CHOOSE i \in present : \A j \in present : i <= j])

\* caching: the price column of every stored row
CachedPriceFollowsPrecedence ==
    \A r \in cache : r.price = first_price(r.raw_data)

\* lookup result: the price of the record an external lookup matched
LookupPriceFollowsPrecedence ==
    (result # Idle /\ result.op = "lookup_address" /\ result.matched # Null) =>
        result.data[1].price = first_price(result.matched[1])

\* price filtering: the records an external search returned that the
\* answer of search_properties keeps, and the price it gives them
FilterPriceFollowsPrecedence ==
    (result # Idle /\ result.op = "search_properties" /\ result.source = "api") =>
        \A i \in DOMAIN result.returned :
            LET prop == result.returned[i]
                price == first_price(prop)
            IN (price # Null /\ price[1] <= result.max_price)
                 <=> \E j \in DOMAIN result.properties :
                        result.properties[j] = [search_item[prop] EXCEPT !.price = price]

\* C20: the price of an external record is its list_price, else its price,
\* else its description's sold_price, else null, the first candidate that
\* is neither null nor zero winning, and this same order gives the price
\* in the stored row, in the price filter of a search and in the result of
\* a lookup
C20_OnePricePrecedence ==
    /\ CachedPriceFollowsPrecedence
    /\ LookupPriceFollowsPrecedence
    /\ FilterPriceFollowsPrecedence

(***************************************************************************)
(* calculate_score, category by category.                                  *)
(***************************************************************************)
\* the number that leads the breakdown string stored under key, and the
\* key's position in the breakdown
CategoryValue(key) ==
    LET i == CHOOSE j \in 1..Len(score.breakdown) : score.breakdown[j].key = key
    IN LeadingNumber(score.breakdown[i].text).value

\* C21: calculate_score of the default FeatureSet returns the total -11:
\* bathrooms 1, bedrooms 1, appliances -14 (7 missing), privacy +1 and 0
\* for every other category.
C21_DefaultScoresMinusEleven ==
    (Scored /\ features = HouseFeatures) =>
        /\ score.total = -11
        /\ \A i \in 1..Len(score.breakdown) :
             LET key == score.breakdown[i].key
             IN CategoryValue(key) =
                  CASE key \in {"bathrooms", "bedrooms", "privacy"} -> 1
                    [] key = "appliances" -> -14
                    [] OTHER -> 0

\* C21 witness: the default FeatureSet has been scored
C21_Witness == Scored /\ features = HouseFeatures /\ Len(score.breakdown) = 17

\* the keys of the appliances dict that carry a condition
KeysWith(cond) ==
    {a \in DOMAIN features.appliances : features.appliances[a] = cond}

\* C22: the appliances category is +2 for each key that is modern and +1
\* for each key that is old, canonical or not, -2 for each of the 7
\* canonical slots that is no key of the dict, and 0 for a key with any
\* other condition, which is not counted as missing; the dict
\* {dishwasher: modern, range: old} scores 2 + 1 - 10 = -7.
C22_AppliancesBySlot ==
    Scored =>
        /\ CategoryValue("appliances") =
              2 * Cardinality(KeysWith("modern")) + Cardinality(KeysWith("old"))
              - 2 * Cardinality(all_appliances \ DOMAIN features.appliances)
        /\ (features.appliances =
               [a \in {"dishwasher", "range"} |->
                   IF a = "dishwasher" THEN "modern" ELSE "old"])
             => CategoryValue("appliances") = -7

\* C22 witness: the example dict {dishwasher: modern, range: old} has been
\* scored
C22_Witness ==
    /\ Scored
    /\ features.appliances =
          [a \in {"dishwasher", "range"} |->
              IF a = "dishwasher" THEN "modern" ELSE "old"]
    /\ CategoryValue("appliances") = -7

\* the monthly fees a FeatureSet of the model may carry
Fees == FieldDomain("hoa_monthly_fee") \cup {SeedMaple.hoa_monthly_fee, SeedPine.hoa_monthly_fee}

\* C23: the HOA category is 0 when has_hoa is false, whatever the fee, and
\* -1 - floor(hoa_monthly_fee / 100) when has_hoa is true: -3 for a fee
\* of 250, at most -1 for every fee that is not negative, and never
\* higher than for a smaller non-negative fee.
C23_HoaPenalty ==
    Scored =>
       LET fee == features.hoa_monthly_fee
       IN /\ CategoryValue("hoa") =
                IF features.has_hoa THEN -1 - (fee \div 100) ELSE 0
          /\ (features.has_hoa /\ fee = 250) => CategoryValue("hoa") = -3
          /\ (features.has_hoa /\ fee >= 0) =>
                /\ CategoryValue("hoa") <= -1
                /\ \A g \in Fees :
                     (0 <= g /\ g <= fee) =>
                        CategoryValue("hoa") <=
                           hoa([features EXCEPT !.hoa_monthly_fee = g]).add

\* C23 witness: a FeatureSet with an HOA and a fee of 250 has been scored
C23_Witness ==
    /\ Scored
    /\ features.has_hoa
    /\ features.hoa_monthly_fee = 250
    /\ CategoryValue("hoa") = -3

\* the declared values of the three enum fields (models.py:9, 17, 18)
DeclaredQualities == {"normal", "modern", "needs_updates"}

DeclaredPrivacies == {"very_private", "private", "normal", "not_private"}

DeclaredNoiseLevels == {"quiet", "normal", "loud"}

\* C24: a FeatureSet with an enum value outside its declared set is
\* scored without failure, with all 17 categories, and the value counts as
\* the default: an unknown bathroom_quality multiplies by 1, an unknown
\* privacy scores +1, an unknown noise_level scores 0.
C24_UnknownEnumScoresAsDefault ==
    (/\ Scored
     /\ \/ features.bathroom_quality \notin DeclaredQualities
        \/ features.privacy \notin DeclaredPrivacies
        \/ features.noise_level \notin DeclaredNoiseLevels) =>
       /\ Len(score.breakdown) = 17
       /\ features.bathroom_quality \notin DeclaredQualities =>
             CategoryValue("bathrooms") = features.bathrooms
       /\ features.privacy \notin DeclaredPrivacies =>
             CategoryValue("privacy") = 1
       /\ features.noise_level \notin DeclaredNoiseLevels =>
             CategoryValue("noise_level") = 0
       /\ score = calculate_score(
              [features EXCEPT
                 !.bathroom_quality =
                    IF @ \in DeclaredQualities THEN @ ELSE "normal",
                 !.privacy = IF @ \in DeclaredPrivacies THEN @ ELSE "normal",
                 !.noise_level =
                    IF @ \in DeclaredNoiseLevels THEN @ ELSE "normal"])

\* C24 witness: a FeatureSet with two enum values outside their sets, one
\* of them the privacy, and more than one bathroom has been scored
C24_Witness ==
    /\ Scored
    /\ features.privacy \notin DeclaredPrivacies
    /\ \/ features.bathroom_quality \notin DeclaredQualities
       \/ features.noise_level \notin DeclaredNoiseLevels
    /\ features.bathrooms > 1

\* the keys of the breakdown in the order of the rubric: garage, bathrooms,
\* bedrooms, square footage, lot size, backyard, curb appeal, appliances,
\* basement, privacy, noise, deck, patio potential, pool, near recreation,
\* walking to shopping, HOA
RubricOrder ==
    <<"garage", "bathrooms", "bedrooms", "square_feet", "lot_size",
      "backyard", "curb_appeal", "appliances", "basement", "privacy",
      "noise_level", "deck", "patio_potential", "pool", "near_recreation",
      "walking_shopping", "hoa">>

\* C25: for every FeatureSet the breakdown of calculate_score holds exactly
\* the 17 categories of the rubric, each once, in the order of the rubric,
\* whatever the feature values are.
C25_BreakdownHasRubricOrder ==
    Scored =>
       [i \in 1..Len(score.breakdown) |-> score.breakdown[i].key] = RubricOrder

\* C25 witness: a scored FeatureSet that takes the scoring arm of some
\* categories and the zero arm of others, the HOA among them
C25_Witness ==
    /\ Scored
    /\ features.garage_cars > 0
    /\ features.has_pool
    /\ ~features.has_hoa
    /\ features.square_feet <= 0
    /\ Len(score.breakdown) = Len(RubricOrder)

(***************************************************************************)
(* The normaliser on its own: the statements that lookup_cached_property   *)
(* and lookup_address run on the address of a request before anything     *)
(* else, applied to addresses written in the three layouts that the        *)
(* comments of main.py name (lines 828-830).                               *)
(***************************************************************************)
\* streets as lists of words: of two, three, four and five words, with
\* and without a unit designator, and with the letter d inside a word
Streets ==
    {<<<<"1", "2">>, <<"B", "r", "o", "a", "d", "w", "a", "y">>>>,
     <<<<"1", "2", "3">>, <<"M", "a", "i", "n">>, <<"S", "t">>>>,
     <<<<"1", "2">>, <<"O", "a", "k", "w", "o", "o", "d">>, <<"D", "r">>>>,
     <<<<"9">>, <<"O", "l", "d">>, <<"M", "i", "l", "l">>, <<"R", "d">>>>,
     <<<<"5">>, <<"E", "l", "m">>, <<"S", "t">>, <<"A", "p", "t">>, <<"2">>>>,
     <<<<"7">>, <<"P", "i", "n", "e">>, <<"R", "d">>, <<"u", "n", "i", "t">>, <<"B">>>>}

\* cities of one word and of two
Cities == {<<<<"S", "p", "r", "i", "n", "g", "f", "i", "e", "l", "d">>>>, <<<<"B", "o", "u", "l", "d", "e", "r">>>>, <<<<"F", "o", "r", "t">>, <<"C", "o", "l", "l", "i", "n", "s">>>>}

\* the state and the ZIP code as a request may write them
StateForms == {<<"I", "L">>, <<"c", "o">>}

ZipForms == {<<"6", "2", "7", "0", "4">>, <<"8", "0", "3", "0", "1", "-", "1", "2", "3", "4">>}

\* Case 1: "123 Main St, City, State ZIP"; Case 2: "123 Main St City,
\* State ZIP"; Case 3: "123 Main St City State ZIP"
Layouts == {"commas", "comma_before_state", "no_commas"}

address_in(layout, street, city, state, zip) ==
    join(street)
    \o (IF layout = "commas" THEN <<",", " ">> ELSE <<" ">>)
    \o join(city)
    \o (IF layout = "no_commas" THEN <<" ">> ELSE <<",", " ">>)
    \o state \o <<" ">> \o zip

\* the addresses the normaliser is run on
NormalizerInputs ==
    {[layout |-> l, street |-> s, city |-> c, state |-> st, zip |-> z,
      address |-> address_in(l, s, c, st, z)] :
        l \in Layouts, s \in Streets, c \in Cities, st \in StateForms,
        z \in ZipForms}

\* street_address_raw and search_address / street_address of each of them
normalized == [in \in NormalizerInputs |->
                 [raw |-> street_address_raw(in.address),
                  key |-> normalize(in.address)]]

\* a request whose address is normalised: the street string after the
\* city has been cut off, and the key after the designators were stripped
call_normalize ==
    /\ \E in \in NormalizerInputs :
         result' = [op |-> "normalize", layout |-> in.layout,
                    street |-> in.street, city |-> in.city,
                    state |-> in.state, zip |-> in.zip,
                    address |-> in.address,
                    street_address_raw |-> normalized[in].raw,
                    search_address |-> normalized[in].key]
    /\ UNCHANGED <<cache, written, now, tz, advances, writes>>
    /\ UNCHANGED restVars

NormalizeNext == call_normalize

SpecNormalize == CacheInit /\ [][NormalizeNext]_vars

\* the two requests carry the same address, one with commas after street
\* and city and one with no comma at all
SameAddressBothLayouts ==
    /\ result.op = "normalize"
    /\ result'.op = "normalize"
    /\ result.street = result'.street
    /\ result.city = result'.city
    /\ result.state = result'.state
    /\ result.zip = result'.zip
    /\ result.layout = "commas"
    /\ result'.layout = "no_commas"

\* C26: '<street>, <city>, <ST> <zip>' and '<street> <city> <ST> <zip>'
\* of one address, with a city of one word and a street of at least three
\* words, normalise to the same street key; "123 Main St, Springfield, IL
\* 62704" and "123 Main St Springfield IL 62704" do.
C26_CommaAndPlainLayoutsAgree ==
    [][(/\ SameAddressBothLayouts
        /\ Len(result.city) = 1
        /\ Len(result.street) >= 3)
          => /\ result'.search_address = result.search_address
             /\ (result.address = <<"1", "2", "3", " ", "M", "a", "i", "n", " ", "S", "t", ",", " ", "S", "p", "r", "i", "n", "g", "f", "i", "e", "l", "d", ",", " ", "I", "L", " ", "6", "2", "7", "0", "4">>)
                  => (/\ result'.address = <<"1", "2", "3", " ", "M", "a", "i", "n", " ", "S", "t", " ", "S", "p", "r", "i", "n", "g", "f", "i", "e", "l", "d", " ", "I", "L", " ", "6", "2", "7", "0", "4">>
                      /\ result'.search_address = <<"1", "2", "3", " ", "m", "a", "i", "n", " ", "s", "t">>)]_vars

\* C26 witness: the layout without commas of "123 Main St Springfield IL
\* 62704" has been normalised to the key of the layout with commas
C26_Witness ==
    /\ result.op = "normalize"
    /\ result.address = <<"1", "2", "3", " ", "M", "a", "i", "n", " ", "S", "t", " ", "S", "p", "r", "i", "n", "g", "f", "i", "e", "l", "d", " ", "I", "L", " ", "6", "2", "7", "0", "4">>
    /\ result.search_address = <<"1", "2", "3", " ", "m", "a", "i", "n", " ", "s", "t">>

\* the designator tokens: unit, apt, apartment, suite, ste and a bare d
DesignatorTokens == {UnitWordsWithD[k] : k \in DOMAIN UnitWordsWithD}

RECURSIVE without_designators(_)
\* the words of a street with every designator token that is followed by
\* an alphanumeric token dropped together with that token
without_designators(words) ==
    IF words = <<>> THEN <<>>
    ELSE IF /\ Len(words) >= 2
            /\ lower(words[1]) \in DesignatorTokens
            /\ \A i \in DOMAIN words[2] : IsUnitChar(words[2][i])
         THEN without_designators(SubSeq(words, 3, Len(words)))
         ELSE <<words[1]>> \o without_designators(Tail(words))

\* C27: the last step of the normaliser removes from the street string
\* each designator token (unit, apt, apartment, suite, ste or a bare d)
\* together with the alphanumeric token that follows it, wherever the pair
\* stands, and nothing else; what is left is lower-cased and trimmed.
C27_OnlyDesignatorsStripped ==
    (result # Idle /\ result.op = "normalize") =>
        result.search_address =
            lower(strip(join(without_designators(split(result.street_address_raw)))))

(***************************************************************************)
(* db.py: the houses table is the set houses of its rows, seq the value   *)
(* of the AUTOINCREMENT counter. Of the columns, notes, photo, created_at *)
(* and updated_at are left out: no operation reads them to decide         *)
(* anything. features and score_breakdown are stored as json.dumps of a   *)
(* dict of str, int, bool and float values and of a dict of str, which    *)
(* json.loads gives back unchanged and in the same order.                 *)
(***************************************************************************)
\* largest id the AUTOINCREMENT counter reaches
MaxHouseId == 3

\* the user ids a request may carry; "anonymous" is what a handler uses
\* for a request without X-User-ID
Users == {"anonymous", "user_1"}

\* the house ids a request may name
HouseIds == 1..(MaxHouseId + 1)

\* a house as a caller passes it: address, features, score and breakdown
Scoring(address, f) ==
    [address |-> address, features |-> f,
     score |-> calculate_score(f).total,
     score_breakdown |-> calculate_score(f).breakdown]

\* two of the examples of seed_data with the score calculate_score gives
\* them, and one with a score that the rubric does not give it
HouseOak == Scoring("123 Oak Street", SeedOak)

HousePine == Scoring("789 Pine Road", SeedPine)

HouseOakRescored == [HouseOak EXCEPT !.score = 99]

HouseDicts == {HouseOak, HousePine, HouseOakRescored}

\* the lists a browser may send to /sync_houses: dicts as above, and a
\* dict without a score
SyncLists ==
    {<<>>, <<HouseOak>>, <<HousePine, HouseOak>>, <<HouseOakRescored>>,
     <<HousePine, [key \in {"address", "features", "score_breakdown"} |->
                      HouseOak[key]]>>}

\* _row_to_dict
row_to_dict(row) ==
    [id |-> row.id, address |-> row.address, features |-> row.features,
     score |-> row.score, score_breakdown |-> row.score_breakdown]

\* the row of a house dict under an id and an owner
house_row(id, user_id, house) ==
    [id |-> id, user_id |-> user_id, address |-> house.address,
     features |-> house.features, score |-> house.score,
     score_breakdown |-> house.score_breakdown]

\* WHERE id = ?, with the owner left out of the condition
owned_by_anyone(table, user_id, house_id) == {r \in table : r.id = house_id}

\* WHERE id = ? AND user_id = ?
owned(table, user_id, house_id) ==
    {r \in table : r.id = house_id /\ r.user_id = user_id}

\* db.add_house
db_add_house(table, n, user_id, house) ==
    LET row == house_row(n + 1, user_id, house)
    IN [houses |-> table \cup {row}, seq |-> n + 1,
        value |-> Some(row_to_dict(row))]

\* db.get_all_houses: the lists ORDER BY score DESC allows (rows of equal
\* score come in any order)
db_get_all_houses(table, user_id) ==
    LET rows == {r \in table : r.user_id = user_id}
        n == Cardinality(rows)
    IN {[i \in 1..n |-> row_to_dict(order[i])] :
          order \in {o \in [1..n -> rows] :
                       /\ \A i, j \in 1..n : i # j => o[i] # o[j]
                       /\ \A i, j \in 1..n : i < j => o[i].score >= o[j].score}}

\* db.get_house_by_id
db_get_house_by_id(table, user_id, house_id) ==
    LET rows == owned(table, user_id, house_id)
    IN IF rows = {} THEN Null ELSE Some(row_to_dict(CHOOSE r \in rows : TRUE))

\* db.update_house
db_update_house(table, user_id, house_id, house) ==
    LET rows == owned(table, user_id, house_id)
        updated == (table \ rows)
                     \cup {house_row(house_id, user_id, house) : r \in rows}
    IN [houses |-> updated,
        value |-> IF rows = {} THEN Null
                  ELSE db_get_house_by_id(updated, user_id, house_id)]

\* db.delete_house
db_delete_house(table, user_id, house_id) ==
    [houses |-> table \ owned(table, user_id, house_id),
     value |-> owned(table, user_id, house_id) # {}]

\* db.clear_all_houses
db_clear_all_houses(table, user_id) ==
    [houses |-> {r \in table : r.user_id # user_id},
     value |-> Cardinality({r \in table : r.user_id = user_id})]

\* db.sync_houses_from_browser: for a dict without address or score
\* house.get gives None, which breaks a NOT NULL constraint; the exception
\* leaves the with block of get_db and the transaction, DELETE included,
\* is rolled back
db_sync_houses_from_browser(table, n, user_id, list) ==
    IF \E i \in DOMAIN list : {"address", "score"} \ DOMAIN list[i] # {}
    THEN [houses |-> table, seq |-> n, raised |-> TRUE,
          value |-> "IntegrityError"]
    ELSE [houses |-> {r \in table : r.user_id # user_id}
                       \cup {house_row(n + i, user_id, list[i]) : i \in DOMAIN list},
          seq |-> n + Len(list), raised |-> FALSE, value |-> Len(list)]

\* the reply slot of a call of db.py
StoreReply(op, user_id, house_id, value) ==
    [op |-> op, user_id |-> user_id, house_id |-> house_id, value |-> value]

\* the calls of db.py, each by any caller with any user id and house id
call_add_house ==
    /\ result = Idle
    /\ seq < MaxHouseId
    /\ \E user_id \in Users : \E house \in HouseDicts :
         LET done == db_add_house(houses, seq, user_id, house)
         IN /\ houses' = done.houses
            /\ seq' = done.seq
            /\ result' = StoreReply("add_house", user_id, done.seq, done.value)
    /\ UNCHANGED <<cache, written, now, tz, advances, writes, writers>>
    /\ UNCHANGED scoreVars

call_get_all_houses ==
    /\ result = Idle
    /\ \E user_id \in Users : \E list \in db_get_all_houses(houses, user_id) :
         result' = StoreReply("get_all_houses", user_id, 0, list)
    /\ UNCHANGED <<cache, written, now, tz, advances, writes, writers>>
    /\ UNCHANGED <<scoreVars, storeVars>>

call_get_house_by_id ==
    /\ result = Idle
    /\ \E user_id \in Users : \E house_id \in HouseIds :
         result' = StoreReply("get_house_by_id", user_id, house_id,
                              db_get_house_by_id(houses, user_id, house_id))
    /\ UNCHANGED <<cache, written, now, tz, advances, writes, writers>>
    /\ UNCHANGED <<scoreVars, storeVars>>

call_update_house ==
    /\ result = Idle
    /\ \E user_id \in Users : \E house_id \in HouseIds : \E house \in HouseDicts :
         LET done == db_update_house(houses, user_id, house_id, house)
         IN /\ houses' = done.houses
            /\ result' = StoreReply("update_house", user_id, house_id, done.value)
    /\ UNCHANGED <<cache, written, now, tz, advances, writes, writers, seq>>
    /\ UNCHANGED scoreVars

call_delete_house ==
    /\ result = Idle
    /\ \E user_id \in Users : \E house_id \in HouseIds :
         LET done == db_delete_house(houses, user_id, house_id)
         IN /\ houses' = done.houses
            /\ result' = StoreReply("delete_house", user_id, house_id, done.value)
    /\ UNCHANGED <<cache, written, now, tz, advances, writes, writers, seq>>
    /\ UNCHANGED scoreVars

call_clear_all_houses ==
    /\ result = Idle
    /\ \E user_id \in Users :
         LET done == db_clear_all_houses(houses, user_id)
         IN /\ houses' = done.houses
            /\ result' = StoreReply("clear_all_houses", user_id, 0, done.value)
    /\ UNCHANGED <<cache, written, now, tz, advances, writes, writers, seq>>
    /\ UNCHANGED scoreVars

call_sync_houses_from_browser ==
    /\ result = Idle
    /\ \E user_id \in Users : \E list \in SyncLists :
         /\ seq + Len(list) <= MaxHouseId
         /\ LET done == db_sync_houses_from_browser(houses, seq, user_id, list)
            IN /\ houses' = done.houses
               /\ seq' = done.seq
               /\ result' = StoreReply("sync_houses_from_browser", user_id, 0,
                                       done.value)
    /\ UNCHANGED <<cache, written, now, tz, advances, writes, writers>>
    /\ UNCHANGED scoreVars

\* the X-User-ID header of a request: absent, empty or a user's id
Headers == {None, "", "user_1"}

\* user_id = user_id if user_id else "anonymous"
user_of(header) == IF header \in {None, ""} THEN "anonymous" ELSE header

\* main.py DELETE /house/{house_id}: 404 unless db.get_house_by_id finds
\* the house for this user, then db.delete_house
delete_house ==
    /\ result = Idle
    /\ \E header \in Headers : \E house_id \in HouseIds :
         LET user_id == user_of(header)
             house == db_get_house_by_id(houses, user_id, house_id)
         IN IF house = Null
            THEN /\ result' = StoreReply("DELETE /house", user_id, house_id,
                                         [status |-> 404, detail |-> "House not found"])
                 /\ houses' = houses
            ELSE /\ houses' = db_delete_house(houses, user_id, house_id).houses
                 /\ result' = StoreReply("DELETE /house", user_id, house_id,
                                         [status |-> 200, detail |-> house[1].address])
    /\ UNCHANGED <<cache, written, now, tz, advances, writes, writers, seq>>
    /\ UNCHANGED scoreVars

StoreNext ==
    \/ respond
    \/ call_add_house
    \/ call_get_all_houses
    \/ call_get_house_by_id
    \/ call_update_house
    \/ call_delete_house
    \/ call_clear_all_houses
    \/ call_sync_houses_from_browser
    \/ delete_house

\* no operation on the houses reads the clock
StoreInit == CacheInit /\ now = 0 /\ tz = 0

SpecStore == StoreInit /\ [][StoreNext]_vars

\* the houses of the users other than user_id
HousesOfOthers(table, user_id) == {r \in table : r.user_id # user_id}

\* the house dicts a reply hands to its caller
Handed(reply) ==
    IF reply.op = "get_all_houses"
    THEN {reply.value[i] : i \in DOMAIN reply.value}
    ELSE IF reply.op \in {"get_house_by_id", "update_house", "add_house"}
            /\ reply.value # Null
         THEN {reply.value[1]}
         ELSE {}

\* the reply says that there is no such house
SaysNotFound(reply) ==
    CASE reply.op \in {"get_house_by_id", "update_house"} -> reply.value = Null
      [] reply.op = "delete_house" -> reply.value = FALSE
      [] reply.op = "DELETE /house" -> reply.value.status = 404
      [] OTHER -> FALSE

\* C28: whatever the users have done before, an operation on the houses
\* called with user id U hands out no house of another user and changes
\* or deletes none, and a get, update or delete of a house id that belongs
\* to another user says not found and leaves the table as it is.
C28_HousesIsolatedPerUser ==
    [][(result = Idle /\ result' # Idle) =>
         LET U == result'.user_id
         IN /\ HousesOfOthers(houses', U) = HousesOfOthers(houses, U)
            /\ \A dict \in Handed(result') :
                  \E r \in houses' : r.user_id = U /\ row_to_dict(r) = dict
            /\ \A dict \in Handed(result') :
                  \A r \in houses \cup houses' : r.id = dict.id => r.user_id = U
            /\ (/\ result'.op \in {"get_house_by_id", "update_house",
                                   "delete_house", "DELETE /house"}
                /\ \E r \in HousesOfOthers(houses, U) : r.id = result'.house_id)
                 => (SaysNotFound(result') /\ houses' = houses)]_vars

\* C28 witness: a user has just asked to delete a house that belongs to
\* another user, while both users have houses
C28_Witness ==
    /\ result # Idle
    /\ result.op \in {"delete_house", "DELETE /house"}
    /\ \E r \in houses : r.user_id # result.user_id /\ r.id = result.house_id
    /\ \E r \in houses : r.user_id = result.user_id
    /\ SaysNotFound(result)

(***************************************************************************)
(* main.py: the requests that write houses.                                *)
(***************************************************************************)
\* the houses a request body may carry: address and features
HouseBodies ==
    {[address |-> h.address, features |-> h.features] : h \in {HouseOak, HousePine}}

\* POST /add_house: the score is calculated, then db.add_house is called
\* with the keyword price, which it does not declare (db.py:91-92): the
\* call raises TypeError before any statement of db.add_house runs
post_add_house ==
    /\ result = Idle
    /\ \E header \in Headers : \E house \in HouseBodies :
         LET scored == calculate_score(house.features)
         IN result' = StoreReply("POST /add_house", user_of(header), 0,
                                 [status |-> 500, detail |-> "TypeError",
                                  score |-> scored.total])
    /\ UNCHANGED <<cache, written, now, tz, advances, writes, writers>>
    /\ UNCHANGED <<scoreVars, storeVars>>

\* PUT /house/{house_id}: as POST /add_house, with db.update_house
\* (db.py:149-150)
put_house ==
    /\ result = Idle
    /\ \E header \in Headers : \E house_id \in HouseIds : \E house \in HouseBodies :
         LET scored == calculate_score(house.features)
         IN result' = StoreReply("PUT /house", user_of(header), house_id,
                                 [status |-> 500, detail |-> "TypeError",
                                  score |-> scored.total])
    /\ UNCHANGED <<cache, written, now, tz, advances, writes, writers>>
    /\ UNCHANGED <<scoreVars, storeVars>>

\* POST /seed_data: the first example is scored, then db.add_house is
\* called without its parameter photo, which has no default: TypeError
seed_data ==
    /\ result = Idle
    /\ \E header \in Headers :
         result' = StoreReply("POST /seed_data", user_of(header), 0,
                              [status |-> 500, detail |-> "TypeError",
                               score |-> calculate_score(SeedOak).total])
    /\ UNCHANGED <<cache, written, now, tz, advances, writes, writers>>
    /\ UNCHANGED <<scoreVars, storeVars>>

\* POST /sync_houses: db.sync_houses_from_browser with the list of the body
sync_houses ==
    /\ result = Idle
    /\ \E header \in Headers : \E list \in SyncLists :
         /\ seq + Len(list) <= MaxHouseId
         /\ LET user_id == user_of(header)
                done == db_sync_houses_from_browser(houses, seq, user_id, list)
            IN /\ houses' = done.houses
               /\ seq' = done.seq
               /\ result' = StoreReply("POST /sync_houses", user_id, 0,
                               IF done.raised
                               THEN [status |-> 500, detail |-> "IntegrityError",
                                     score |-> 0]
                               ELSE [status |-> 200, detail |-> "synced",
                                     score |-> done.value])
    /\ UNCHANGED <<cache, written, now, tz, advances, writes, writers>>
    /\ UNCHANGED scoreVars

\* DELETE /clear_all
clear_all ==
    /\ result = Idle
    /\ \E header \in Headers :
         LET user_id == user_of(header)
             done == db_clear_all_houses(houses, user_id)
         IN /\ houses' = done.houses
            /\ result' = StoreReply("DELETE /clear_all", user_id, 0,
                                    [status |-> 200, detail |-> "cleared",
                                     score |-> done.value])
    /\ UNCHANGED <<cache, written, now, tz, advances, writes, writers, seq>>
    /\ UNCHANGED scoreVars

HousesNext ==
    \/ respond
    \/ post_add_house
    \/ put_house
    \/ seed_data
    \/ sync_houses
    \/ delete_house
    \/ clear_all

SpecHouses == StoreInit /\ [][HousesNext]_vars

\* C29: after any sequence of add_house, update_house, seed_data,
\* sync_houses, delete_house and clear_all requests, the score and the
\* score_breakdown of every stored house are those that calculate_score
\* gives for the features stored with it.
C29_StoredScoreIsCalculated ==
    \A r \in houses :
        /\ r.score = calculate_score(r.features).total
        /\ r.score_breakdown = calculate_score(r.features).breakdown

(***************************************************************************)
(* The cache table shared by lookup_address and the price-ceiling          *)
(* searches.                                                               *)
(***************************************************************************)
SharedNext ==
    \/ respond
    \/ lookup_address
    \/ search_properties
    \/ search_by_city

SpecShared == Init /\ [][SharedNext]_vars

\* the rows a price-ceiling search of the ZIP code serves from the table
\* that were last written by lookup_address, from a search of statuses
\* other than the active-listing ones
BroadRowsServed(zip_code, max_price) ==
    {r \in search_rows(cache, zip_code, max_price, now, tz, FRESH_DAYS) :
        /\ <<r.zip_code, r.address>> \in DOMAIN written
        /\ "statuses" \in DOMAIN written[<<r.zip_code, r.address>>]
        /\ written[<<r.zip_code, r.address>>].statuses # ACTIVE_STATUSES}

\* C30: every record a price-ceiling search returns (search_properties or
\* search_by_city), from the cache or from the external search, comes from
\* an external search of the active-listing statuses (for_sale,
\* ready_to_build): a row that lookup_address wrote to the shared cache
\* from its search of all statuses is never returned by a price-ceiling
\* search.
C30_PriceSearchServesActiveListings ==
    [][/\ SearchRan /\ result'.source = "api"
          => result'.statuses = ACTIVE_STATUSES
       /\ SearchRan /\ result'.source = "cache"
          => BroadRowsServed(result'.zip_code, result'.max_price) = {}
       /\ CityAnswered
          => \A i \in DOMAIN result'.log :
                result'.log[i].outcome = "hit"
                => BroadRowsServed(result'.zip_codes[i], result'.max_price) = {}]_vars

====
